---- MODULE Spec2Model ----
(***************************************************************************)
(* A model of the rotation core of three.math: Quaternion, Euler and the   *)
(* cubic keyframe interpolant, with their change-notification callbacks.   *)
(*                                                                         *)
(* Numbers.  A JavaScript number is modelled by a finite-precision         *)
(* rational <<n, d>>: every arithmetic operation returns its exact result  *)
(* when that result has a denominator of at most Scale, and otherwise the  *)
(* nearest multiple of 1/Scale (ties away from zero, so that rounding      *)
(* commutes with negation as IEEE rounding does).  <<1,0>>, <<-1,0>> and   *)
(* <<0,0>> are Infinity, -Infinity and NaN.  Signed zeros are not told     *)
(* apart.  The Math.* functions are computed on the 1/Scale grid.          *)
(***************************************************************************)
EXTENDS Integers, Sequences, FiniteSets, TLC

\* Denominator of the grid the number model rounds to.
Scale == 1000

-----------------------------------------------------------------------------
(* Integer helpers *)

\* F applied to the value of e: a local constant e of the code, computed once
\* and then used under the name of F's parameter.
Bind(e, F(_)) == F(e)

IAbs(n) == IF n < 0 THEN -n ELSE n

ISign(n) == IF n < 0 THEN -1 ELSE IF n > 0 THEN 1 ELSE 0

RECURSIVE GCD(_, _)
GCD(a, b) == IF b = 0 THEN a ELSE GCD(b, a % b)

\* Nearest integer to n/d for d > 0, ties away from zero.
RoundDiv(n, d) ==
  ISign(n) * ((IAbs(n) \div d) + (IF 2 * (IAbs(n) % d) >= d THEN 1 ELSE 0))

\* <<q, rem>> with r * s = q * d + rem, for 0 <= r < d and s >= 0, computed by
\* doubling so that no intermediate exceeds 3 * d.
RECURSIVE MulDivRem(_, _, _)
MulDivRem(r, s, d) ==
  IF s = 0 THEN <<0, 0>>
  ELSE Bind(MulDivRem(r, s \div 2, d), LAMBDA h :
       Bind(2 * h[2] + (IF s % 2 = 1 THEN r ELSE 0), LAMBDA dbl :
         <<2 * h[1] + dbl \div d, dbl % d>>))

\* Nearest integer to (n / d) * Scale for d > 0, ties away from zero.
ToGridInt(n, d) ==
  Bind(MulDivRem(IAbs(n) % d, Scale, d), LAMBDA f :
    ISign(n) * ((IAbs(n) \div d) * Scale + f[1] + (IF 2 * f[2] >= d THEN 1 ELSE 0)))

\* Largest s with s * s <= n, for n >= 0, by bisection on lo <= s < hi.
RECURSIVE ISqrtBetween(_, _, _)
ISqrtBetween(n, lo, hi) ==
  IF hi - lo <= 1 THEN lo
  ELSE LET mid == (lo + hi) \div 2
       IN  IF mid * mid <= n THEN ISqrtBetween(n, mid, hi)
           ELSE ISqrtBetween(n, lo, mid)

ISqrt(n) == ISqrtBetween(n, 0, IF n < 46340 THEN n + 1 ELSE 46340)

-----------------------------------------------------------------------------
(* The number model *)

NaN == <<0, 0>>
PosInf == <<1, 0>>
NegInf == <<-1, 0>>
Zero == <<0, 1>>
One == <<1, 1>>
Half == <<1, 2>>

IsNaN(a) == a = NaN
IsFinite(a) == a[2] # 0

\* n/d in lowest terms with a positive denominator; d = 0 gives a non-finite.
Reduce(n, d) ==
  IF d = 0 THEN <<ISign(n), 0>>
  ELSE Bind(ISign(d) * GCD(IAbs(n), IAbs(d)), LAMBDA g : <<n \div g, d \div g>>)

\* The number nearest to n/d that the model represents.
Num(n, d) ==
  Bind(Reduce(n, d), LAMBDA r :
    IF r[2] <= Scale THEN r ELSE Reduce(ToGridInt(r[1], r[2]), Scale))

Whole(n) == <<n, 1>>
Frac(n, d) == Num(n, d)

Neg(a) == <<-a[1], a[2]>>

Add(a, b) ==
  IF a[2] = 0 \/ b[2] = 0
  THEN IF IsNaN(a) \/ IsNaN(b) THEN NaN
       ELSE IF a[2] = 0 /\ b[2] = 0
            THEN (IF a[1] = b[1] THEN a ELSE NaN)
            ELSE (IF a[2] = 0 THEN a ELSE b)
  ELSE Bind((a[2] \div GCD(a[2], b[2])) * b[2], LAMBDA l :
         Num(a[1] * (l \div a[2]) + b[1] * (l \div b[2]), l))

Sub(a, b) == Add(a, Neg(b))

\* (n1/d1) * (n2/d2) for finite factors, cancelling before multiplying
MulFinite(n1, d1, n2, d2) ==
  Bind(GCD(IAbs(n1), d2), LAMBDA g1 :
  Bind(GCD(IAbs(n2), d1), LAMBDA g2 :
    Num((n1 \div g1) * (n2 \div g2), (d1 \div g2) * (d2 \div g1))))

Mul(a, b) ==
  IF a[2] = 0 \/ b[2] = 0 THEN <<ISign(a[1] * b[1]), 0>>
  ELSE MulFinite(a[1], a[2], b[1], b[2])

Recip(a) == IF a[1] < 0 THEN <<-a[2], -a[1]>> ELSE <<a[2], a[1]>>

Div(a, b) ==
  IF a[2] = 0 /\ b[2] = 0 THEN NaN
  ELSE IF a[2] = 0 THEN (IF IsNaN(a) THEN NaN
                         ELSE <<(IF b[1] < 0 THEN -a[1] ELSE a[1]), 0>>)
  ELSE IF b[2] = 0 THEN (IF IsNaN(b) THEN NaN ELSE Zero)
  ELSE IF b[1] = 0 THEN <<ISign(a[1]), 0>>
  ELSE MulFinite(a[1], a[2], Recip(b)[1], Recip(b)[2])

\* a < b, a <= b (false when either is NaN)
Lt(a, b) ==
  /\ ~IsNaN(a) /\ ~IsNaN(b)
  /\ IF a[2] = 0 /\ b[2] = 0 THEN a[1] < b[1]
     ELSE IF a[2] = 0 THEN a[1] < 0
     ELSE IF b[2] = 0 THEN b[1] > 0
     ELSE a[1] * b[2] < b[1] * a[2]

Le(a, b) == ~IsNaN(a) /\ ~IsNaN(b) /\ ~Lt(b, a)

\* a === b (false when either is NaN)
Eq(a, b) == ~IsNaN(a) /\ ~IsNaN(b) /\ a = b

Abs(a) == <<IAbs(a[1]), a[2]>>

Min(a, b) == IF IsNaN(a) \/ IsNaN(b) THEN NaN ELSE IF Lt(b, a) THEN b ELSE a
Max(a, b) == IF IsNaN(a) \/ IsNaN(b) THEN NaN ELSE IF Lt(a, b) THEN b ELSE a

\* Number.EPSILON = 2^-52 lies strictly between 0 and the least positive number
\* of the model, so the comparisons against it are comparisons against 0.
GtEpsilon(a) == Lt(Zero, a)
LeEpsilon(a) == Le(a, Zero)
LtEpsilon(a) == Le(a, Zero)

\* MathUtils.clamp(value, min, max) = Math.max(min, Math.min(max, value))
clamp(value, min, max) == Max(min, Min(max, value))

-----------------------------------------------------------------------------
(* Math.* on the grid: integers g stand for g / Scale *)

PiG == RoundDiv(355 * Scale, 113)
HalfPiG == RoundDiv(355 * Scale, 226)
QuarterPiG == RoundDiv(355 * Scale, 452)
TwoPiG == RoundDiv(710 * Scale, 113)

FxMul(a, b) == RoundDiv(a * b, Scale)

GridOf(a) == ToGridInt(a[1], a[2])
OfGrid(g) == Reduce(g, Scale)

\* sin and cos of g for 0 <= g <= HalfPiG, by their Taylor series
SinSeries(g) ==
  LET x2 == FxMul(g, g)
      t3 == FxMul(x2, g)
      t5 == FxMul(x2, t3)
      t7 == FxMul(x2, t5)
      t9 == FxMul(x2, t7)
  IN  g - RoundDiv(t3, 6) + RoundDiv(t5, 120) - RoundDiv(t7, 5040)
        + RoundDiv(t9, 362880)

CosSeries(g) ==
  LET x2 == FxMul(g, g)
      t4 == FxMul(x2, x2)
      t6 == FxMul(x2, t4)
      t8 == FxMul(x2, t6)
      t10 == FxMul(x2, t8)
  IN  Scale - RoundDiv(x2, 2) + RoundDiv(t4, 24) - RoundDiv(t6, 720)
        + RoundDiv(t8, 40320) - RoundDiv(t10, 3628800)

SinG(g) ==
  LET m == IAbs(g) % TwoPiG
      h == IF m > PiG THEN m - PiG ELSE m
      q == IF h > HalfPiG THEN PiG - h ELSE h
  IN  ISign(g) * (IF m > PiG THEN -1 ELSE 1) * SinSeries(q)

CosG(g) ==
  LET m == IAbs(g) % TwoPiG
      h == IF m > PiG THEN TwoPiG - m ELSE m
  IN  IF h > HalfPiG THEN -CosSeries(PiG - h) ELSE CosSeries(h)

\* atan of g for |g| <= 0.45 * Scale, by its Taylor series
AtanSeries(g) ==
  LET x2 == FxMul(g, g)
      t3 == FxMul(x2, g)
      t5 == FxMul(x2, t3)
      t7 == FxMul(x2, t5)
      t9 == FxMul(x2, t7)
      t11 == FxMul(x2, t9)
  IN  g - RoundDiv(t3, 3) + RoundDiv(t5, 5) - RoundDiv(t7, 7)
        + RoundDiv(t9, 9) - RoundDiv(t11, 11)

\* atan of a number 0 <= z <= 1: atan z = pi/4 + atan((z - 1)/(z + 1))
AtanUnit(z) ==
  IF Lt(Frac(2, 5), z)
  THEN QuarterPiG + AtanSeries(GridOf(Div(Sub(z, One), Add(z, One))))
  ELSE AtanSeries(GridOf(z))

\* atan of a number z >= 0, possibly Infinity
AtanPos(z) ==
  IF ~IsFinite(z) THEN HalfPiG
  ELSE IF Lt(One, z) THEN HalfPiG - AtanUnit(Div(One, z))
  ELSE AtanUnit(z)

sin(a) == IF ~IsFinite(a) THEN NaN ELSE OfGrid(SinG(GridOf(a)))

cos(a) == IF ~IsFinite(a) THEN NaN ELSE OfGrid(CosG(GridOf(a)))

sqrt(a) ==
  IF IsNaN(a) \/ a[1] < 0 THEN NaN
  ELSE IF ~IsFinite(a) THEN PosInf
  ELSE Bind(ISqrt(a[1]), LAMBDA sn :
       Bind(ISqrt(a[2]), LAMBDA sd :
         IF sn * sn = a[1] /\ sd * sd = a[2] THEN <<sn, sd>>
         ELSE OfGrid(ISqrt(GridOf(a) * Scale))))

atan2(y, x) ==
  IF IsNaN(y) \/ IsNaN(x) THEN NaN
  ELSE IF x[1] = 0 THEN OfGrid(ISign(y[1]) * HalfPiG)
  ELSE Bind(IF ~IsFinite(x) THEN (IF IsFinite(y) THEN 0 ELSE QuarterPiG)
            ELSE AtanPos(Div(Abs(y), Abs(x))), LAMBDA a :
         OfGrid((IF y[1] < 0 THEN -1 ELSE 1) * (IF x[1] > 0 THEN a ELSE PiG - a)))

acos(a) ==
  IF IsNaN(a) \/ Lt(One, Abs(a)) THEN NaN
  ELSE atan2(sqrt(Sub(One, Mul(a, a))), a)

asin(a) ==
  IF IsNaN(a) \/ Lt(One, Abs(a)) THEN NaN
  ELSE atan2(a, sqrt(Sub(One, Mul(a, a))))

-----------------------------------------------------------------------------
(* Objects.  The world m holds the heap of Quaternion objects (quat), of    *)
(* Euler objects (euler), the numeric buffers (buf), the module-level       *)
(* scratch matrix of Euler.ts (matrix), the change notifications of the     *)
(* call in progress (log), the console warnings (warn) and the exception    *)
(* thrown (err).  A method is an operator from the world before the call to *)
(* the world after it.                                                      *)

\* Callbacks: the prototype's empty _onChangeCallback and three client functions.
Callbacks == {"noop", "f", "g", "h"}

\* new Quaternion(x, y, z, w)
NewQuaternion(x, y, z, w) ==
  [x |-> x, y |-> y, z |-> z, w |-> w, cb |-> "noop", dirty |-> FALSE]

QValue(o) == <<o.x, o.y, o.z, o.w>>

\* An assignment to this._x, this._y, this._z or this._w.
QPut(m, this, field, v) ==
  [m EXCEPT !.quat[this] = [[@ EXCEPT ![field] = v] EXCEPT !.dirty = TRUE]]

\* Four assignments whose right-hand sides were all evaluated before the first.
QPut4(m, this, x, y, z, w) ==
  QPut(QPut(QPut(QPut(m, this, "x", x), this, "y", y), this, "z", z), this, "w", w)

\* this._onChangeCallback()
QNotify(m, this) ==
  [m EXCEPT !.log = Append(@, [obj |-> this, fn |-> m.quat[this].cb,
                               val |-> QValue(m.quat[this])]),
            !.quat[this].dirty = FALSE]

\* Quaternion.set
QSet(m, this, x, y, z, w) == QNotify(QPut4(m, this, x, y, z, w), this)

\* Quaternion.copy
QCopy(m, this, q) ==
  QNotify(QPut4(m, this, m.quat[q].x, m.quat[q].y, m.quat[q].z, m.quat[q].w), this)

\* Quaternion.dot
QDot(a, b) ==
  Add(Add(Add(Mul(a.x, b.x), Mul(a.y, b.y)), Mul(a.z, b.z)), Mul(a.w, b.w))

\* Quaternion.lengthSq
QLengthSq(a) ==
  Add(Add(Add(Mul(a.x, a.x), Mul(a.y, a.y)), Mul(a.z, a.z)), Mul(a.w, a.w))

\* Quaternion.length
QLength(a) == sqrt(QLengthSq(a))

\* Quaternion.conjugate
QConjugate(m, this) ==
  QNotify(QPut(QPut(QPut(m, this, "x", Mul(m.quat[this].x, Whole(-1))),
                    this, "y", Mul(m.quat[this].y, Whole(-1))),
               this, "z", Mul(m.quat[this].z, Whole(-1))), this)

\* Quaternion.invert
QInvert(m, this) == QConjugate(m, this)

\* Quaternion.identity
QIdentity(m, this) == QSet(m, this, Zero, Zero, Zero, One)

\* A normalize without the guard for length 0, up to its callback
QNormalizeWritesUnguarded(m, this) ==
  Bind(Div(One, QLength(m.quat[this])), LAMBDA r :
    QPut4(m, this, Mul(m.quat[this].x, r), Mul(m.quat[this].y, r),
          Mul(m.quat[this].z, r), Mul(m.quat[this].w, r)))

\* Quaternion.normalize, up to its callback
QNormalizeWrites(m, this) ==
  Bind(QLength(m.quat[this]), LAMBDA l :
    IF Eq(l, Zero) THEN QPut4(m, this, Zero, Zero, Zero, One)
    ELSE Bind(Div(One, l), LAMBDA r :
           QPut4(m, this, Mul(m.quat[this].x, r), Mul(m.quat[this].y, r),
                 Mul(m.quat[this].z, r), Mul(m.quat[this].w, r))))

\* Quaternion.normalize
QNormalize(m, this) == QNotify(QNormalizeWrites(m, this), this)

\* The Hamilton product a x b as multiplyQuaternions computes it
QProduct(a, b) ==
  << Sub(Add(Add(Mul(a.x, b.w), Mul(a.w, b.x)), Mul(a.y, b.z)), Mul(a.z, b.y)),
     Sub(Add(Add(Mul(a.y, b.w), Mul(a.w, b.y)), Mul(a.z, b.x)), Mul(a.x, b.z)),
     Sub(Add(Add(Mul(a.z, b.w), Mul(a.w, b.z)), Mul(a.x, b.y)), Mul(a.y, b.x)),
     Sub(Sub(Sub(Mul(a.w, b.w), Mul(a.x, b.x)), Mul(a.y, b.y)), Mul(a.z, b.z)) >>

\* Quaternion.multiplyQuaternions: a and b are read in full before this is written.
QMultiplyQuaternions(m, this, a, b) ==
  Bind(QProduct(m.quat[a], m.quat[b]), LAMBDA p :
    QNotify(QPut4(m, this, p[1], p[2], p[3], p[4]), this))

\* A multiply with the operands of premultiply, a premultiply with those of
\* multiply
QMultiplySwapped(m, this, q) == QMultiplyQuaternions(m, this, q, this)

\* Quaternion.multiply, Quaternion.premultiply
QMultiply(m, this, q) == QMultiplyQuaternions(m, this, this, q)
QPremultiply(m, this, q) == QMultiplyQuaternions(m, this, q, this)

\* The angle without the clamp of the dot product
QAngleToUnclamped(m, this, q) ==
  Mul(Whole(2), acos(Abs(QDot(m.quat[this], m.quat[q]))))

\* Quaternion.angleTo
QAngleTo(m, this, q) ==
  Mul(Whole(2), acos(Abs(clamp(QDot(m.quat[this], m.quat[q]), Whole(-1), One))))

\* A target taken from qb as it is, whatever the sign of the cosine
SlerpTargetUnflipped(m, this, qb, cosHalfTheta) == QCopy(m, this, qb)

\* Quaternion.slerp, lines 637-646: this takes the components of qb, negated
\* when the angle between them is obtuse (field writes) or copied (copy(qb)).
SlerpTarget(m, this, qb, cosHalfTheta) ==
  IF Lt(cosHalfTheta, Zero)
  THEN QPut4(m, this, Neg(m.quat[qb].x), Neg(m.quat[qb].y), Neg(m.quat[qb].z),
             Neg(m.quat[qb].w))
  ELSE QCopy(m, this, qb)

\* Quaternion.slerp, lines 648-655: nothing to interpolate, the saved
\* components are written back and the method returns.
SlerpRestore(m, this, x, y, z, w) == QPut4(m, this, x, y, z, w)

\* Quaternion.slerp, lines 659-670: linear interpolation, then normalize
SlerpLerp(m, this, x, y, z, w, t) ==
  Bind(Sub(One, t), LAMBDA s :
    QNotify(QNormalize(QPut4(m, this,
                             Add(Mul(s, x), Mul(t, m.quat[this].x)),
                             Add(Mul(s, y), Mul(t, m.quat[this].y)),
                             Add(Mul(s, z), Mul(t, m.quat[this].z)),
                             Add(Mul(s, w), Mul(t, m.quat[this].w))), this), this))

\* Quaternion.slerp, lines 672-684: the spherical interpolation proper
SlerpSpherical(m, this, x, y, z, w, cosHalfTheta, sqrSinHalfTheta, t) ==
  Bind(sqrt(sqrSinHalfTheta), LAMBDA sinHalfTheta :
  Bind(atan2(sinHalfTheta, cosHalfTheta), LAMBDA halfTheta :
  Bind(Div(sin(Mul(Sub(One, t), halfTheta)), sinHalfTheta), LAMBDA ratioA :
  Bind(Div(sin(Mul(t, halfTheta)), sinHalfTheta), LAMBDA ratioB :
    QNotify(QPut4(m, this,
                  Add(Mul(x, ratioA), Mul(m.quat[this].x, ratioB)),
                  Add(Mul(y, ratioA), Mul(m.quat[this].y, ratioB)),
                  Add(Mul(z, ratioA), Mul(m.quat[this].z, ratioB)),
                  Add(Mul(w, ratioA), Mul(m.quat[this].w, ratioB))), this)))))

\* Quaternion.slerp, line 635: w * qb._w + x * qb._x + y * qb._y + z * qb._z
SlerpDot(x, y, z, w, qb) ==
  Add(Add(Add(Mul(w, qb.w), Mul(x, qb.x)), Mul(y, qb.y)), Mul(z, qb.z))

\* Quaternion.slerp, lines 631-684: x, y, z, w are the components this had
\* when slerp was called.
SlerpFrom(m, this, qb, t, x, y, z, w) ==
  Bind(SlerpDot(x, y, z, w, m.quat[qb]), LAMBDA d :
  Bind(IF Lt(d, Zero) THEN Neg(d) ELSE d, LAMBDA cosHalfTheta :
  Bind(Sub(One, Mul(cosHalfTheta, cosHalfTheta)), LAMBDA sqrSinHalfTheta :
  Bind(SlerpTarget(m, this, qb, d), LAMBDA m1 :
    IF Le(One, cosHalfTheta) THEN SlerpRestore(m1, this, x, y, z, w)
    ELSE IF LeEpsilon(sqrSinHalfTheta) THEN SlerpLerp(m1, this, x, y, z, w, t)
    ELSE SlerpSpherical(m1, this, x, y, z, w, cosHalfTheta, sqrSinHalfTheta, t)))))

\* A slerp that takes no shortcut at t = 0 and t = 1
QSlerpWithoutShortcuts(m, this, qb, t) ==
  SlerpFrom(m, this, qb, t, m.quat[this].x, m.quat[this].y, m.quat[this].z,
            m.quat[this].w)

\* Quaternion.slerp
QSlerp(m, this, qb, t) ==
  IF Eq(t, Zero) THEN m
  ELSE IF Eq(t, One) THEN QCopy(m, this, qb)
  ELSE SlerpFrom(m, this, qb, t, m.quat[this].x, m.quat[this].y, m.quat[this].z,
                 m.quat[this].w)

\* A slerpQuaternions that interpolates qa in place and copies the outcome
QSlerpQuaternionsInPlace(m, this, qa, qb, t) == QCopy(QSlerp(m, qa, qb, t), this, qa)

\* Quaternion.slerpQuaternions
QSlerpQuaternions(m, this, qa, qb, t) == QSlerp(QCopy(m, this, qa), this, qb, t)

\* A rotateTowards that does not limit t to 1
QRotateTowardsUnlimited(m, this, q, step) ==
  Bind(QAngleTo(m, this, q), LAMBDA angle :
    IF Eq(angle, Zero) THEN m
    ELSE QSlerp(m, this, q, Div(step, angle)))

\* Quaternion.rotateTowards
QRotateTowards(m, this, q, step) ==
  Bind(QAngleTo(m, this, q), LAMBDA angle :
    IF Eq(angle, Zero) THEN m
    ELSE QSlerp(m, this, q, Min(One, Div(step, angle))))

\* Quaternion.equals
QEquals(a, b) == Eq(b.x, a.x) /\ Eq(b.y, a.y) /\ Eq(b.z, a.z) /\ Eq(b.w, a.w)

\* The property setters: set x, set y, set z, set w
QSetComponent(m, this, field, value) == QNotify(QPut(m, this, field, value), this)

\* setFromEuler with the signs of the order 'XYZ' used for every order
EulerSignsOfXYZ(order) ==
  IF order \in {"XYZ", "YXZ", "ZXY", "ZYX", "YZX", "XZY"} THEN <<1, -1, 1, -1>>
  ELSE <<0, 0, 0, 0>>

\* Quaternion.setFromEuler, lines 284-329: for each order, whether the second
\* product is added (1) or subtracted (-1) in x, y, z and w
EulerSigns(order) ==
  CASE order = "XYZ" -> <<1, -1, 1, -1>>
    [] order = "YXZ" -> <<1, -1, -1, 1>>
    [] order = "ZXY" -> <<-1, 1, 1, -1>>
    [] order = "ZYX" -> <<-1, 1, -1, 1>>
    [] order = "YZX" -> <<1, 1, -1, -1>>
    [] order = "XZY" -> <<-1, -1, 1, 1>>
    [] OTHER -> <<0, 0, 0, 0>>

\* a + b or a - b
AddSigned(a, sign, b) == IF sign = 1 THEN Add(a, b) ELSE Sub(a, b)

\* A setFromEuler that writes the identity for an order it does not recognise
EulerWritesResetting(m, this, order, c1, c2, c3, s1, s2, s3) ==
  IF EulerSigns(order)[1] = 0
  THEN QPut4([m EXCEPT !.warn = @ + 1], this, Zero, Zero, Zero, One)
  ELSE QPut4(m, this,
         AddSigned(Mul(Mul(s1, c2), c3), EulerSigns(order)[1], Mul(Mul(c1, s2), s3)),
         AddSigned(Mul(Mul(c1, s2), c3), EulerSigns(order)[2], Mul(Mul(s1, c2), s3)),
         AddSigned(Mul(Mul(c1, c2), s3), EulerSigns(order)[3], Mul(Mul(s1, s2), c3)),
         AddSigned(Mul(Mul(c1, c2), c3), EulerSigns(order)[4], Mul(Mul(s1, s2), s3)))

\* Quaternion.setFromEuler, lines 284-329: the writes for the cosines c1, c2,
\* c3 and sines s1, s2, s3 of the half angles; an order that is none of the
\* six is warned about and nothing is written.
EulerWrites(m, this, order, c1, c2, c3, s1, s2, s3) ==
  IF EulerSigns(order)[1] = 0 THEN [m EXCEPT !.warn = @ + 1]
  ELSE QPut4(m, this,
         AddSigned(Mul(Mul(s1, c2), c3), EulerSigns(order)[1], Mul(Mul(c1, s2), s3)),
         AddSigned(Mul(Mul(c1, s2), c3), EulerSigns(order)[2], Mul(Mul(s1, c2), s3)),
         AddSigned(Mul(Mul(c1, c2), s3), EulerSigns(order)[3], Mul(Mul(s1, s2), c3)),
         AddSigned(Mul(Mul(c1, c2), c3), EulerSigns(order)[4], Mul(Mul(s1, s2), s3)))

\* this._onChangeCallback() unless update === false
QNotifyUnlessFalse(m, this, update) ==
  IF update # "false" THEN QNotify(m, this) ELSE m

\* A setFromEuler that resets this and notifies before it throws
QSetFromEulerResetting(m, this, euler, update) ==
  IF euler \notin DOMAIN m.euler
  THEN [QNotify(QPut4(m, this, Zero, Zero, Zero, One), this) EXCEPT !.err = "Error"]
  ELSE QNotifyUnlessFalse(
         EulerWrites(m, this, m.euler[euler].order,
                     cos(Div(m.euler[euler].x, Whole(2))),
                     cos(Div(m.euler[euler].y, Whole(2))),
                     cos(Div(m.euler[euler].z, Whole(2))),
                     sin(Div(m.euler[euler].x, Whole(2))),
                     sin(Div(m.euler[euler].y, Whole(2))),
                     sin(Div(m.euler[euler].z, Whole(2)))),
         this, update)

\* Quaternion.setFromEuler: euler is a reference to an Euler object, or to
\* another object, or "null" or "undefined"; update is "undefined", "true" or
\* "false".
QSetFromEuler(m, this, euler, update) ==
  IF euler \notin DOMAIN m.euler THEN [m EXCEPT !.err = "Error"]
  ELSE QNotifyUnlessFalse(
         EulerWrites(m, this, m.euler[euler].order,
                     cos(Div(m.euler[euler].x, Whole(2))),
                     cos(Div(m.euler[euler].y, Whole(2))),
                     cos(Div(m.euler[euler].z, Whole(2))),
                     sin(Div(m.euler[euler].x, Whole(2))),
                     sin(Div(m.euler[euler].y, Whole(2))),
                     sin(Div(m.euler[euler].z, Whole(2)))),
         this, update)

\* Quaternion.setFromAxisAngle: axis is a Vector3 [x, y, z]
QSetFromAxisAngle(m, this, axis, angle) ==
  Bind(Div(angle, Whole(2)), LAMBDA halfAngle :
  Bind(sin(halfAngle), LAMBDA s :
    QNotify(QPut4(m, this, Mul(axis.x, s), Mul(axis.y, s), Mul(axis.z, s),
                  cos(halfAngle)), this)))

\* A setFromRotationMatrix whose m11 branch is taken also when m11 ties with
\* another diagonal element
RotationMatrixWXYZFirstOfTies(te) ==
  LET m11 == te[1]   m12 == te[5]   m13 == te[9]
      m21 == te[2]   m22 == te[6]   m23 == te[10]
      m31 == te[3]   m32 == te[7]   m33 == te[11]
      Quarter == Frac(1, 4)
  IN  Bind(Add(Add(m11, m22), m33), LAMBDA trace :
      IF Lt(Zero, trace)
      THEN Bind(Div(Half, sqrt(Add(trace, One))), LAMBDA s :
             <<Div(Quarter, s), Mul(Sub(m32, m23), s),
               Mul(Sub(m13, m31), s), Mul(Sub(m21, m12), s)>>)
      ELSE IF Le(m22, m11) /\ Le(m33, m11)
      THEN Bind(Mul(Whole(2), sqrt(Sub(Sub(Add(One, m11), m22), m33))), LAMBDA s :
             <<Div(Sub(m32, m23), s), Mul(Quarter, s),
               Div(Add(m12, m21), s), Div(Add(m13, m31), s)>>)
      ELSE IF Lt(m33, m22)
      THEN Bind(Mul(Whole(2), sqrt(Sub(Sub(Add(One, m22), m11), m33))), LAMBDA s :
             <<Div(Sub(m13, m31), s), Div(Add(m12, m21), s),
               Mul(Quarter, s), Div(Add(m23, m32), s)>>)
      ELSE Bind(Mul(Whole(2), sqrt(Sub(Sub(Add(One, m33), m11), m22))), LAMBDA s :
             <<Div(Sub(m21, m12), s), Div(Add(m13, m31), s),
               Div(Add(m23, m32), s), Mul(Quarter, s)>>))

\* Quaternion.setFromRotationMatrix, lines 380-408: <<w, x, y, z>> from the
\* sixteen elements te of a Matrix4
RotationMatrixWXYZ(te) ==
  LET m11 == te[1]   m12 == te[5]   m13 == te[9]
      m21 == te[2]   m22 == te[6]   m23 == te[10]
      m31 == te[3]   m32 == te[7]   m33 == te[11]
      Quarter == Frac(1, 4)
  IN  Bind(Add(Add(m11, m22), m33), LAMBDA trace :
      IF Lt(Zero, trace)
      THEN Bind(Div(Half, sqrt(Add(trace, One))), LAMBDA s :
             <<Div(Quarter, s), Mul(Sub(m32, m23), s),
               Mul(Sub(m13, m31), s), Mul(Sub(m21, m12), s)>>)
      ELSE IF Lt(m22, m11) /\ Lt(m33, m11)
      THEN Bind(Mul(Whole(2), sqrt(Sub(Sub(Add(One, m11), m22), m33))), LAMBDA s :
             <<Div(Sub(m32, m23), s), Mul(Quarter, s),
               Div(Add(m12, m21), s), Div(Add(m13, m31), s)>>)
      ELSE IF Lt(m33, m22)
      THEN Bind(Mul(Whole(2), sqrt(Sub(Sub(Add(One, m22), m11), m33))), LAMBDA s :
             <<Div(Sub(m13, m31), s), Div(Add(m12, m21), s),
               Mul(Quarter, s), Div(Add(m23, m32), s)>>)
      ELSE Bind(Mul(Whole(2), sqrt(Sub(Sub(Add(One, m33), m11), m22))), LAMBDA s :
             <<Div(Sub(m21, m12), s), Div(Add(m13, m31), s),
               Div(Add(m23, m32), s), Mul(Quarter, s)>>))

\* Quaternion.setFromRotationMatrix
QSetFromRotationMatrix(m, this, te) ==
  Bind(RotationMatrixWXYZ(te), LAMBDA r :
    QNotify(QPut4(m, this, r[2], r[3], r[4], r[1]), this))

\* Vector3.dot
V3Dot(a, b) == Add(Add(Mul(a.x, b.x), Mul(a.y, b.y)), Mul(a.z, b.z))

\* A setFromUnitVectors that takes the axis (-y, x, 0) for every vFrom
\* opposite to vTo
QSetFromUnitVectorsOneAxis(m, this, vFrom, vTo) ==
  Bind(Add(V3Dot(vFrom, vTo), One), LAMBDA r :
    QNormalize(IF LtEpsilon(r)
               THEN QPut4(m, this, Neg(vFrom.y), vFrom.x, Zero, Zero)
               ELSE QPut4(m, this,
                          Sub(Mul(vFrom.y, vTo.z), Mul(vFrom.z, vTo.y)),
                          Sub(Mul(vFrom.z, vTo.x), Mul(vFrom.x, vTo.z)),
                          Sub(Mul(vFrom.x, vTo.y), Mul(vFrom.y, vTo.x)),
                          r),
               this))

\* Quaternion.setFromUnitVectors
QSetFromUnitVectors(m, this, vFrom, vTo) ==
  Bind(Add(V3Dot(vFrom, vTo), One), LAMBDA r :
    QNormalize(IF LtEpsilon(r)
               THEN IF Lt(Abs(vFrom.z), Abs(vFrom.x))
                    THEN QPut4(m, this, Neg(vFrom.y), vFrom.x, Zero, Zero)
                    ELSE QPut4(m, this, Zero, Neg(vFrom.z), vFrom.y, Zero)
               ELSE QPut4(m, this,
                          Sub(Mul(vFrom.y, vTo.z), Mul(vFrom.z, vTo.y)),
                          Sub(Mul(vFrom.z, vTo.x), Mul(vFrom.x, vTo.z)),
                          Sub(Mul(vFrom.x, vTo.y), Mul(vFrom.y, vTo.x)),
                          r),
               this))

\* Quaternion.fromArray
QFromArray(m, this, array, offset) ==
  QNotify(QPut4(m, this, m.buf[array][offset + 1], m.buf[array][offset + 2],
                m.buf[array][offset + 3], m.buf[array][offset + 4]), this)

\* A registration that leaves a callback already registered in place
QOnChangeKeepFirst(m, this, callback) ==
  IF m.quat[this].cb = "noop" THEN [m EXCEPT !.quat[this].cb = callback] ELSE m

\* Quaternion._onChange
QOnChange(m, this, callback) == [m EXCEPT !.quat[this].cb = callback]

-----------------------------------------------------------------------------
(* Euler.  An order argument is a string; "undefined" stands for an argument *)
(* left out.                                                                 *)

\* Euler.RotationOrders
RotationOrders == {"XYZ", "YZX", "ZXY", "XZY", "YXZ", "ZYX"}

\* new Euler(x, y, z, order)
NewEuler(x, y, z, order) ==
  [x |-> x, y |-> y, z |-> z, order |-> order, cb |-> "noop", dirty |-> FALSE]

EValue(o) == <<o.x, o.y, o.z, o.order>>

\* An assignment to this._x, this._y, this._z or this._order.
EPut(m, this, field, v) ==
  [m EXCEPT !.euler[this] = [[@ EXCEPT ![field] = v] EXCEPT !.dirty = TRUE]]

\* Assignments to this._x, this._y and this._z
EPut3(m, this, x, y, z) ==
  EPut(EPut(EPut(m, this, "x", x), this, "y", y), this, "z", z)

\* this._onChangeCallback()
ENotify(m, this) ==
  [m EXCEPT !.log = Append(@, [obj |-> this, fn |-> m.euler[this].cb,
                               val |-> EValue(m.euler[this])]),
            !.euler[this].dirty = FALSE]

\* order || this._order
OrderOr(m, this, order) ==
  IF order \in {"undefined", ""} THEN m.euler[this].order ELSE order

\* The property setters: set x, set y, set z, set order
ESetComponent(m, this, field, value) == ENotify(EPut(m, this, field, value), this)

\* Euler.set
ESet(m, this, x, y, z, order) ==
  ENotify(EPut(EPut3(m, this, x, y, z), this, "order", OrderOr(m, this, order)), this)

\* Euler.clone: the object returned
EClone(m, this) ==
  NewEuler(m.euler[this].x, m.euler[this].y, m.euler[this].z, m.euler[this].order)

\* A copy that takes the argument's callback along with its fields
ECopyWithCallback(m, this, e) ==
  ENotify([EPut(EPut3(m, this, m.euler[e].x, m.euler[e].y, m.euler[e].z),
                this, "order", m.euler[e].order)
             EXCEPT !.euler[this].cb = m.euler[e].cb], this)

\* Euler.copy
ECopy(m, this, e) ==
  ENotify(EPut(EPut3(m, this, m.euler[e].x, m.euler[e].y, m.euler[e].z),
               this, "order", m.euler[e].order), this)

\* A limit no element clamped to [-1, 1] reaches
GimbalLimitNever == Whole(2)

\* The literal 0.9999999 of Euler.setFromRotationMatrix
GimbalLimit == Frac(9999999, 10000000)

\* Euler.setFromRotationMatrix, lines 159-256: the angles <<x, y, z>> the switch
\* leaves in this, o being this before the call
RotationMatrixAngles(te, order, o) ==
  LET m11 == te[1]   m12 == te[5]   m13 == te[9]
      m21 == te[2]   m22 == te[6]   m23 == te[10]
      m31 == te[3]   m32 == te[7]   m33 == te[11]
      MinusOne == Whole(-1)
  IN  CASE order = "XYZ" ->
             IF Lt(Abs(m13), GimbalLimit)
             THEN <<atan2(Neg(m23), m33), asin(clamp(m13, MinusOne, One)),
                    atan2(Neg(m12), m11)>>
             ELSE <<atan2(m32, m22), asin(clamp(m13, MinusOne, One)), Zero>>
        [] order = "YXZ" ->
             IF Lt(Abs(m23), GimbalLimit)
             THEN <<asin(Neg(clamp(m23, MinusOne, One))), atan2(m13, m33),
                    atan2(m21, m22)>>
             ELSE <<asin(Neg(clamp(m23, MinusOne, One))), atan2(Neg(m31), m11), Zero>>
        [] order = "ZXY" ->
             IF Lt(Abs(m32), GimbalLimit)
             THEN <<asin(clamp(m32, MinusOne, One)), atan2(Neg(m31), m33),
                    atan2(Neg(m12), m22)>>
             ELSE <<asin(clamp(m32, MinusOne, One)), Zero, atan2(m21, m11)>>
        [] order = "ZYX" ->
             IF Lt(Abs(m31), GimbalLimit)
             THEN <<atan2(m32, m33), asin(Neg(clamp(m31, MinusOne, One))),
                    atan2(m21, m11)>>
             ELSE <<Zero, asin(Neg(clamp(m31, MinusOne, One))), atan2(Neg(m12), m22)>>
        [] order = "YZX" ->
             IF Lt(Abs(m21), GimbalLimit)
             THEN <<atan2(Neg(m23), m22), atan2(Neg(m31), m11),
                    asin(clamp(m21, MinusOne, One))>>
             ELSE <<Zero, atan2(m13, m33), asin(clamp(m21, MinusOne, One))>>
        [] order = "XZY" ->
             IF Lt(Abs(m12), GimbalLimit)
             THEN <<atan2(m32, m22), atan2(m13, m11),
                    asin(Neg(clamp(m12, MinusOne, One)))>>
             ELSE <<atan2(Neg(m23), m33), Zero, asin(Neg(clamp(m12, MinusOne, One)))>>
        [] OTHER -> <<o.x, o.y, o.z>>

\* A setFromRotationMatrix that sets the angles to 0 for an order it does not
\* recognise
ESetFromRotationMatrixWritesClearing(m, this, te, order) ==
  EPut(IF order \in {"XYZ", "YXZ", "ZXY", "ZYX", "YZX", "XZY"}
       THEN Bind(RotationMatrixAngles(te, order, m.euler[this]), LAMBDA a :
              EPut3(m, this, a[1], a[2], a[3]))
       ELSE EPut3([m EXCEPT !.warn = @ + 1], this, Zero, Zero, Zero),
       this, "order", order)

\* Euler.setFromRotationMatrix, lines 168-258: the angles are written, or the
\* order is warned about, and then the order is stored.
ESetFromRotationMatrixWrites(m, this, te, order) ==
  EPut(IF order \in RotationOrders
       THEN Bind(RotationMatrixAngles(te, order, m.euler[this]), LAMBDA a :
              EPut3(m, this, a[1], a[2], a[3]))
       ELSE [m EXCEPT !.warn = @ + 1],
       this, "order", order)

\* A callback invoked only when update is given and true
ENotifyIfTrue(m, this, update) ==
  IF update = "true" THEN ENotify(m, this) ELSE m

\* if (update !== false) this._onChangeCallback()
ENotifyUnlessFalse(m, this, update) ==
  IF update # "false" THEN ENotify(m, this) ELSE m

\* Euler.setFromRotationMatrix: te is m.elements
ESetFromRotationMatrix(m, this, te, order, update) ==
  ENotifyUnlessFalse(ESetFromRotationMatrixWrites(m, this, te, OrderOr(m, this, order)),
                     this, update)

\* Matrix4.makeRotationFromQuaternion: the elements, column-major, for the
\* quaternion <<x, y, z, w>>
MakeRotationFromQuaternion(x, y, z, w) ==
  LET x2 == Add(x, x)   y2 == Add(y, y)   z2 == Add(z, z)
      xx == Mul(x, x2)  xy == Mul(x, y2)  xz == Mul(x, z2)
      yy == Mul(y, y2)  yz == Mul(y, z2)  zz == Mul(z, z2)
      wx == Mul(w, x2)  wy == Mul(w, y2)  wz == Mul(w, z2)
  IN  << Sub(One, Add(yy, zz)), Add(xy, wz), Sub(xz, wy), Zero,
         Sub(xy, wz), Sub(One, Add(xx, zz)), Add(yz, wx), Zero,
         Add(xz, wy), Sub(yz, wx), Sub(One, Add(xx, yy)), Zero,
         Zero, Zero, Zero, One >>

\* A scratch matrix that is computed only while it is the identity
EMakeMatrixOnce(m, q) ==
  IF m.matrix = << One, Zero, Zero, Zero,  Zero, One, Zero, Zero,
                   Zero, Zero, One, Zero,  Zero, Zero, Zero, One >>
  THEN [m EXCEPT !.matrix = MakeRotationFromQuaternion(m.quat[q].x, m.quat[q].y,
                                                       m.quat[q].z, m.quat[q].w)]
  ELSE m

\* _matrix.makeRotationFromQuaternion(q)
EMakeMatrix(m, q) ==
  [m EXCEPT !.matrix = MakeRotationFromQuaternion(m.quat[q].x, m.quat[q].y,
                                                  m.quat[q].z, m.quat[q].w)]

\* this.setFromRotationMatrix(_matrix, order, update)
ESetFromMatrix(m, this, order, update) ==
  ESetFromRotationMatrix(m, this, m.matrix, order, update)

\* Euler.setFromQuaternion
ESetFromQuaternion(m, this, q, order, update) ==
  ESetFromMatrix(EMakeMatrix(m, q), this, order, update)

\* Euler.setFromVector3
ESetFromVector3(m, this, v, order) ==
  ESet(m, this, v.x, v.y, v.z, OrderOr(m, this, order))

\* Euler.reorder
EReorder(m, this, newOrder) ==
  ESetFromQuaternion(QSetFromEuler(m, "_quaternion", this, "undefined"),
                     this, "_quaternion", newOrder, "undefined")

\* Euler.equals
EEquals(a, b) == Eq(b.x, a.x) /\ Eq(b.y, a.y) /\ Eq(b.z, a.z) /\ b.order = a.order

\* A fromArray that takes the order 'XYZ' when the array holds none
EFromArrayDefaultOrder(m, this, array) ==
  ENotify(EPut(EPut3(m, this, array[1], array[2], array[3]), this, "order",
               IF Len(array) > 3 /\ array[4] # "undefined" THEN array[4] ELSE "XYZ"),
          this)

\* Euler.fromArray: array has three or four elements
EFromArray(m, this, array) ==
  ENotify(IF Len(array) > 3 /\ array[4] # "undefined"
          THEN EPut(EPut3(m, this, array[1], array[2], array[3]), this, "order", array[4])
          ELSE EPut3(m, this, array[1], array[2], array[3]), this)

\* Euler.toArray: the array after array[offset .. offset + 3] were assigned;
\* the elements an assignment past the length leaves between are undefined
EToArray(m, this, array, offset) ==
  [m EXCEPT !.buf[array] =
     [i \in 1..(IF Len(@) > offset + 4 THEN Len(@) ELSE offset + 4) |->
        CASE i = offset + 1 -> m.euler[this].x
          [] i = offset + 2 -> m.euler[this].y
          [] i = offset + 3 -> m.euler[this].z
          [] i = offset + 4 -> m.euler[this].order
          [] OTHER -> IF i <= Len(@) THEN @[i] ELSE "undefined"]]

\* Euler._onChange
EOnChange(m, this, callback) == [m EXCEPT !.euler[this].cb = callback]

-----------------------------------------------------------------------------
(* Interpolants.  An interpolant c is the record of its fields; the arrays   *)
(* are sequences, element i of the code being element i + 1 here; an ending  *)
(* is the name of its constant.                                              *)

Endings == {"ZeroCurvatureEnding", "ZeroSlopeEnding", "WrapAroundEnding"}

\* The settings of an interpolant none were assigned to
NoSettings == [endingStart |-> "undefined", endingEnd |-> "undefined"]

\* new CubicInterpolant(parameterPositions, sampleValues, sampleSize), with
\* the settings assigned to it afterwards
NewCubicInterpolant(parameterPositions, sampleValues, sampleSize, settings) ==
  [parameterPositions |-> parameterPositions, sampleValues |-> sampleValues,
   valueSize |-> sampleSize, resultBuffer |-> [i \in 1..sampleSize |-> Zero],
   settings |-> settings, _cachedIndex |-> 0,
   _weightPrev |-> Zero, _offsetPrev |-> 0, _weightNext |-> Zero, _offsetNext |-> 0]

\* this.DefaultSettings_ of a CubicInterpolant
DefaultSettings_ ==
  [endingStart |-> "ZeroCurvatureEnding", endingEnd |-> "ZeroCurvatureEnding"]

\* Interpolant.getSettings_: this.settings || this.DefaultSettings_
getSettings_(c) == IF c.settings = NoSettings THEN DefaultSettings_ ELSE c.settings

\* pp[i] is not undefined
HasPosition(c, i) == i >= 0 /\ i < Len(c.parameterPositions)

\* pp[i]
Position(c, i) == c.parameterPositions[i + 1]

\* CubicInterpolant.intervalChanged_, lines 60-83: <<iPrev, tPrev>>
StencilPrev(c, i1, t0, t1) ==
  IF HasPosition(c, i1 - 2) THEN <<i1 - 2, Position(c, i1 - 2)>>
  ELSE CASE getSettings_(c).endingStart = "ZeroSlopeEnding" ->
              <<i1, Sub(Mul(Whole(2), t0), t1)>>
         [] getSettings_(c).endingStart = "WrapAroundEnding" ->
              <<Len(c.parameterPositions) - 2,
                Sub(Add(t0, Position(c, Len(c.parameterPositions) - 2)),
                    Position(c, Len(c.parameterPositions) - 1))>>
         [] OTHER -> <<i1, t1>>

\* A stencil whose default ending at the end is the zero slope one
StencilNextZeroSlope(c, i1, t0, t1) ==
  IF HasPosition(c, i1 + 1) THEN <<i1 + 1, Position(c, i1 + 1)>>
  ELSE CASE getSettings_(c).endingEnd = "WrapAroundEnding" ->
              <<1, Sub(Add(t1, Position(c, 1)), Position(c, 0))>>
         [] OTHER -> <<i1, Sub(Mul(Whole(2), t1), t0)>>

\* A stencil whose wrap-around ending at the end takes the row after the
\* second
StencilNextThirdRow(c, i1, t0, t1) ==
  IF HasPosition(c, i1 + 1) THEN <<i1 + 1, Position(c, i1 + 1)>>
  ELSE CASE getSettings_(c).endingEnd = "ZeroSlopeEnding" ->
              <<i1, Sub(Mul(Whole(2), t1), t0)>>
         [] getSettings_(c).endingEnd = "WrapAroundEnding" ->
              <<2, Sub(Add(t1, Position(c, 1)), Position(c, 0))>>
         [] OTHER -> <<i1 - 1, t0>>

\* CubicInterpolant.intervalChanged_, lines 61-104: <<iNext, tNext>>
StencilNext(c, i1, t0, t1) ==
  IF HasPosition(c, i1 + 1) THEN <<i1 + 1, Position(c, i1 + 1)>>
  ELSE CASE getSettings_(c).endingEnd = "ZeroSlopeEnding" ->
              <<i1, Sub(Mul(Whole(2), t1), t0)>>
         [] getSettings_(c).endingEnd = "WrapAroundEnding" ->
              <<1, Sub(Add(t1, Position(c, 1)), Position(c, 0))>>
         [] OTHER -> <<i1 - 1, t0>>

\* CubicInterpolant.intervalChanged_, lines 106-113: the weights and offsets
\* for the neighbours <<iPrev, tPrev>> and <<iNext, tNext>>
StencilWeights(c, t0, t1, prev, next, halfDt) ==
  [c EXCEPT !._weightPrev = Div(halfDt, Sub(t0, prev[2])),
            !._weightNext = Div(halfDt, Sub(next[2], t1)),
            !._offsetPrev = prev[1] * c.valueSize,
            !._offsetNext = next[1] * c.valueSize]

\* An intervalChanged_ that computes the weights and offsets only if none
\* were computed before
IntervalChangedOnce(c, i1, t0, t1) ==
  IF c._offsetPrev # 0 \/ c._offsetNext # 0 \/ c._weightPrev # Zero THEN c
  ELSE StencilWeights(c, t0, t1, StencilPrev(c, i1, t0, t1),
                      StencilNext(c, i1, t0, t1), Mul(Sub(t1, t0), Half))

\* CubicInterpolant.intervalChanged_
intervalChanged_(c, i1, t0, t1) ==
  StencilWeights(c, t0, t1, StencilPrev(c, i1, t0, t1), StencilNext(c, i1, t0, t1),
                 Mul(Sub(t1, t0), Half))

\* Basis weights whose s0 has the term -0.5 * p in place of (-0.5 + wP) * p
CubicBasisHalfSlope(wP, wN, p, pp, ppp) ==
  << Sub(Add(Mul(Neg(wP), ppp), Mul(Mul(Whole(2), wP), pp)), Mul(wP, p)),
     Add(Add(Add(Mul(Add(One, wP), ppp),
                 Mul(Sub(Frac(-3, 2), Mul(Whole(2), wP)), pp)),
             Mul(Frac(-1, 2), p)), One),
     Add(Add(Mul(Sub(Whole(-1), wN), ppp), Mul(Add(Frac(3, 2), wN), pp)),
         Mul(Half, p)),
     Sub(Mul(wN, ppp), Mul(wN, pp)) >>

\* CubicInterpolant.interpolate_, lines 131-134: <<sP, s0, s1, sN>>
CubicBasis(wP, wN, p, pp, ppp) ==
  << Sub(Add(Mul(Neg(wP), ppp), Mul(Mul(Whole(2), wP), pp)), Mul(wP, p)),
     Add(Add(Add(Mul(Add(One, wP), ppp),
                 Mul(Sub(Frac(-3, 2), Mul(Whole(2), wP)), pp)),
             Mul(Add(Frac(-1, 2), wP), p)), One),
     Add(Add(Mul(Sub(Whole(-1), wN), ppp), Mul(Add(Frac(3, 2), wN), pp)),
         Mul(Half, p)),
     Sub(Mul(wN, ppp), Mul(wN, pp)) >>

\* CubicInterpolant.interpolate_, lines 131-134: the derivatives with respect
\* to p of sP, s0, s1, sN at p = 0 and at p = 1
CubicBasisSlopeAtStart(wP, wN) == <<Neg(wP), Sub(wP, Half), Half, Zero>>
CubicBasisSlopeAtEnd(wP, wN) == <<Zero, Frac(-1, 2), Sub(Half, wN), wN>>

\* CubicInterpolant.interpolate_, lines 125 and 139-143: the derivative with
\* respect to t of element i of the result, for the derivatives ds of the four
\* weights with respect to p, on the interval [pp[i1 - 1], pp[i1]] whose
\* weights and offsets c holds
CubicSlope(c, i1, ds, i) ==
  Div(Add(Add(Add(Mul(ds[1], c.sampleValues[c._offsetPrev + i]),
                  Mul(ds[2], c.sampleValues[(i1 - 1) * c.valueSize + i])),
              Mul(ds[3], c.sampleValues[i1 * c.valueSize + i])),
          Mul(ds[4], c.sampleValues[c._offsetNext + i])),
      Sub(Position(c, i1), Position(c, i1 - 1)))

\* CubicInterpolant.interpolate_, lines 139-143: the weighted sum of the four
\* samples for element i of the result
CubicSum(c, o0, o1, s, i) ==
  Add(Add(Add(Mul(s[1], c.sampleValues[c._offsetPrev + i]),
              Mul(s[2], c.sampleValues[o0 + i])),
          Mul(s[3], c.sampleValues[o1 + i])),
      Mul(s[4], c.sampleValues[c._offsetNext + i]))

\* An interpolate_ whose loop runs over the whole result buffer, the samples
\* of the last element serving for the elements past the stride
CubicCombineWhole(c, o0, o1, s) ==
  [c EXCEPT !.resultBuffer =
     [i \in DOMAIN c.resultBuffer |->
        CubicSum(c, o0, o1, s, IF i <= c.valueSize THEN i ELSE c.valueSize)]]

\* CubicInterpolant.interpolate_, lines 138-144: the result for the weights s;
\* the elements of the buffer from the stride on are not assigned
CubicCombine(c, o0, o1, s) ==
  [c EXCEPT !.resultBuffer =
     [i \in DOMAIN c.resultBuffer |->
        IF i <= c.valueSize THEN CubicSum(c, o0, o1, s, i) ELSE c.resultBuffer[i]]]

\* CubicInterpolant.interpolate_, lines 117 and 146: the array returned is the
\* one the field resultBuffer of this refers to
interpolate_Returns == "resultBuffer"

\* CubicInterpolant.interpolate_
interpolate_(c, i1, t0, t, t1) ==
  Bind(Div(Sub(t, t0), Sub(t1, t0)), LAMBDA p :
  Bind(Mul(p, p), LAMBDA pp :
  Bind(Mul(pp, p), LAMBDA ppp :
  Bind(CubicBasis(c._weightPrev, c._weightNext, p, pp, ppp), LAMBDA s :
    CubicCombine(c, i1 * c.valueSize - c.valueSize, i1 * c.valueSize, s)))))

\* Interpolant.copySampleValue_
copySampleValue_(c, index) ==
  [c EXCEPT !.resultBuffer =
     [i \in 1..c.valueSize |-> c.sampleValues[index * c.valueSize + i]]]

\* Interpolant.evaluate: the cached interval [pp[i1 - 1], pp[i1]) still holds t
IntervalHolds(c, t) ==
  /\ HasPosition(c, c._cachedIndex - 1) /\ HasPosition(c, c._cachedIndex)
  /\ Le(Position(c, c._cachedIndex - 1), t) /\ Lt(t, Position(c, c._cachedIndex))

\* Interpolant.evaluate: the index the search ends at, the least i1 with
\* t < pp[i1], or pp.length if there is none
SoughtIndex(c, t) ==
  IF \E i \in 1..Len(c.parameterPositions) : Lt(t, c.parameterPositions[i])
  THEN (CHOOSE i \in 1..Len(c.parameterPositions) :
          /\ Lt(t, c.parameterPositions[i])
          /\ \A j \in 1..(i - 1) : ~Lt(t, c.parameterPositions[j])) - 1
  ELSE Len(c.parameterPositions)

\* Interpolant.evaluate after a search that ended at i1
Sought(c, t, i1) ==
  IF i1 = 0 \/ i1 = Len(c.parameterPositions)
  THEN copySampleValue_([c EXCEPT !._cachedIndex = i1], IF i1 = 0 THEN 0 ELSE i1 - 1)
  ELSE interpolate_(intervalChanged_([c EXCEPT !._cachedIndex = i1], i1,
                                     Position(c, i1 - 1), Position(c, i1)),
                    i1, Position(c, i1 - 1), t, Position(c, i1))

\* Interpolant.evaluate: the interpolant after the call, whose resultBuffer is
\* what the call returns
evaluate(c, t) ==
  IF IntervalHolds(c, t)
  THEN interpolate_(c, c._cachedIndex, Position(c, c._cachedIndex - 1), t,
                    Position(c, c._cachedIndex))
  ELSE Sought(c, t, SoughtIndex(c, t))

-----------------------------------------------------------------------------
(* Flat arrays: array[i] of the code is buf[b][i + 1] *)

BufGet(m, b, i) == m.buf[b][i + 1]

BufPut4(m, b, i, x, y, z, w) ==
  [m EXCEPT !.buf[b] = [[[[@ EXCEPT ![i + 1] = x] EXCEPT ![i + 2] = y]
                                    EXCEPT ![i + 3] = z] EXCEPT ![i + 4] = w]]

\* Quaternion.slerpFlat, lines 78-90: <<s, t>>, the weights of the two
\* quaternions, those of a slerp unless the step is tiny
SlerpFlatWeights(s, t, cs, dir, sqrSin) ==
  IF GtEpsilon(sqrSin)
  THEN Bind(sqrt(sqrSin), LAMBDA sn :
       Bind(atan2(sn, Mul(cs, dir)), LAMBDA len :
         <<Div(sin(Mul(s, len)), sn), Div(sin(Mul(t, len)), sn)>>))
  ELSE <<s, t>>

\* Quaternion.slerpFlat, lines 99-106: normalized when a lerp was done
SlerpFlatNormalize(x0, y0, z0, w0, lerped) ==
  IF lerped
  THEN Bind(Div(One, sqrt(Add(Add(Add(Mul(x0, x0), Mul(y0, y0)), Mul(z0, z0)),
                              Mul(w0, w0)))), LAMBDA f :
         <<Mul(x0, f), Mul(y0, f), Mul(z0, f), Mul(w0, f)>>)
  ELSE <<x0, y0, z0, w0>>

\* Quaternion.slerpFlat, lines 92-106: the weighted sum, normalized after a lerp
SlerpFlatMix(x0, y0, z0, w0, x1, y1, z1, w1, s, t, dir) ==
  Bind(Mul(t, dir), LAMBDA tDir :
    SlerpFlatNormalize(Add(Mul(x0, s), Mul(x1, tDir)), Add(Mul(y0, s), Mul(y1, tDir)),
                       Add(Mul(z0, s), Mul(z1, tDir)), Add(Mul(w0, s), Mul(w1, tDir)),
                       Eq(s, Sub(One, t))))

\* Quaternion.slerpFlat, lines 69-106: the interpolated components for t not 0 or 1
SlerpFlatBlend(x0, y0, z0, w0, x1, y1, z1, w1, t) ==
  IF ~Eq(w0, w1) \/ ~Eq(x0, x1) \/ ~Eq(y0, y1) \/ ~Eq(z0, z1)
  THEN
    Bind(Add(Add(Add(Mul(x0, x1), Mul(y0, y1)), Mul(z0, z1)), Mul(w0, w1)), LAMBDA cs :
    Bind(IF Le(Zero, cs) THEN One ELSE Whole(-1), LAMBDA dir :
    Bind(SlerpFlatWeights(Sub(One, t), t, cs, dir, Sub(One, Mul(cs, cs))), LAMBDA st :
      SlerpFlatMix(x0, y0, z0, w0, x1, y1, z1, w1, st[1], st[2], dir))))
  ELSE <<x0, y0, z0, w0>>

\* Quaternion.slerpFlat
slerpFlat(m, dst, dstOffset, src0, srcOffset0, src1, srcOffset1, t) ==
  LET x0 == BufGet(m, src0, srcOffset0 + 0)
      y0 == BufGet(m, src0, srcOffset0 + 1)
      z0 == BufGet(m, src0, srcOffset0 + 2)
      w0 == BufGet(m, src0, srcOffset0 + 3)
      x1 == BufGet(m, src1, srcOffset1 + 0)
      y1 == BufGet(m, src1, srcOffset1 + 1)
      z1 == BufGet(m, src1, srcOffset1 + 2)
      w1 == BufGet(m, src1, srcOffset1 + 3)
  IN  IF Eq(t, Zero) THEN BufPut4(m, dst, dstOffset, x0, y0, z0, w0)
      ELSE IF Eq(t, One) THEN BufPut4(m, dst, dstOffset, x1, y1, z1, w1)
      ELSE Bind(SlerpFlatBlend(x0, y0, z0, w0, x1, y1, z1, w1, t), LAMBDA r :
             BufPut4(m, dst, dstOffset, r[1], r[2], r[3], r[4]))

\* The product with its factors exchanged: b x a where a x b is meant
FlatProductSwapped(x0, y0, z0, w0, x1, y1, z1, w1) ==
  << Sub(Add(Add(Mul(x1, w0), Mul(w1, x0)), Mul(y1, z0)), Mul(z1, y0)),
     Sub(Add(Add(Mul(y1, w0), Mul(w1, y0)), Mul(z1, x0)), Mul(x1, z0)),
     Sub(Add(Add(Mul(z1, w0), Mul(w1, z0)), Mul(x1, y0)), Mul(y1, x0)),
     Sub(Sub(Sub(Mul(w1, w0), Mul(x1, x0)), Mul(y1, y0)), Mul(z1, z0)) >>

\* Quaternion.multiplyQuaternionsFlat, lines 140-143
FlatProduct(x0, y0, z0, w0, x1, y1, z1, w1) ==
  << Sub(Add(Add(Mul(x0, w1), Mul(w0, x1)), Mul(y0, z1)), Mul(z0, y1)),
     Sub(Add(Add(Mul(y0, w1), Mul(w0, y1)), Mul(z0, x1)), Mul(x0, z1)),
     Sub(Add(Add(Mul(z0, w1), Mul(w0, z1)), Mul(x0, y1)), Mul(y0, x1)),
     Sub(Sub(Sub(Mul(w0, w1), Mul(x0, x1)), Mul(y0, y1)), Mul(z0, z1)) >>

\* Quaternion.multiplyQuaternionsFlat: the eight reads precede the four writes.
multiplyQuaternionsFlat(m, dst, dstOffset, src0, srcOffset0, src1, srcOffset1) ==
  Bind(FlatProduct(BufGet(m, src0, srcOffset0), BufGet(m, src0, srcOffset0 + 1),
                   BufGet(m, src0, srcOffset0 + 2), BufGet(m, src0, srcOffset0 + 3),
                   BufGet(m, src1, srcOffset1), BufGet(m, src1, srcOffset1 + 1),
                   BufGet(m, src1, srcOffset1 + 2), BufGet(m, src1, srcOffset1 + 3)),
       LAMBDA p : BufPut4(m, dst, dstOffset, p[1], p[2], p[3], p[4]))

-----------------------------------------------------------------------------
(* State *)

VARIABLES
  quat,     \* the Quaternion objects: q1 (the receiver), qa and qb (arguments)
            \* and _quaternion (the module-level scratch object of Euler.ts)
  euler,    \* the Euler objects: e1 (the receiver), ea (an argument)
  buf,      \* the number arrays handed to the flat-array functions
  _matrix,  \* the elements of the module-level scratch Matrix4 of Euler.ts
  log,      \* the change callbacks invoked by the last call, in order
  warn,     \* the console.warn calls of the last call
  err,      \* the exception the last call threw, or "none"
  ret,      \* what the last call returned, when it is not the receiver
  last,     \* the last call: its name and arguments
  pre,      \* quat, euler and buf as they were when the last call started
  ncalls,   \* calls made so far, registrations of a callback apart
  interpolant,  \* the CubicInterpolant that receives evaluate
  registered  \* for each object, the callbacks handed to its _onChange, oldest first

vars ==
  <<quat, euler, buf, _matrix, log, warn, err, ret, last, pre, ncalls, interpolant,
    registered>>

\* Most calls, registrations of a callback apart, made in a run.
MaxCalls == 1

\* Matrix4's constructor: the identity, column-major
IdentityElements ==
  << One, Zero, Zero, Zero,  Zero, One, Zero, Zero,
     Zero, Zero, One, Zero,  Zero, Zero, Zero, One >>

\* The world a call starts in: no callback invoked yet, nothing written yet.
World ==
  [quat |-> [r \in DOMAIN quat |-> [quat[r] EXCEPT !.dirty = FALSE]],
   euler |-> [r \in DOMAIN euler |-> [euler[r] EXCEPT !.dirty = FALSE]],
   buf |-> buf, matrix |-> _matrix, log |-> <<>>, warn |-> 0, err |-> "none"]

\* What a call leaves behind: `call`, started in the world m0, ended in m and
\* returned result.
Effects(m0, m, call, result) ==
  /\ quat' = m.quat
  /\ euler' = m.euler
  /\ buf' = m.buf
  /\ _matrix' = m.matrix
  /\ log' = m.log
  /\ warn' = m.warn
  /\ err' = m.err
  /\ ret' = result
  /\ last' = call
  /\ pre' = [quat |-> m0.quat, euler |-> m0.euler, buf |-> m0.buf]
  /\ UNCHANGED interpolant

\* A call other than a registration
Return(m0, m, call, result) ==
  /\ Effects(m0, m, call, result)
  /\ ncalls' = ncalls + 1
  /\ UNCHANGED registered

\* The callback each argument object is constructed with, so that a call that
\* notified an argument would show in the log.
ArgCallback == "h"

\* World with Quaternion object r replaced by new Quaternion(v)._onChange(h)
WithQuat(m, r, v) ==
  [m EXCEPT !.quat[r] =
     [NewQuaternion(v[1], v[2], v[3], v[4]) EXCEPT !.cb = ArgCallback]]

\* World with Euler object r replaced by new Euler(v)._onChange(h)
WithEuler(m, r, v) ==
  [m EXCEPT !.euler[r] = [NewEuler(v[1], v[2], v[3], v[4]) EXCEPT !.cb = ArgCallback]]

\* The callback object r holds according to the registrations made on it
LastRegistered(r) ==
  IF registered[r] = <<>> THEN "noop" ELSE registered[r][Len(registered[r])]

\* Most registrations made on one object in a run
MaxRegistrations == 2

\* The callback the next registration on r hands over: f first, g afterwards
NextCallback(r) == IF registered[r] = <<>> THEN "f" ELSE "g"

\* registered after one more registration on r
Registering(r, callback) == [registered EXCEPT ![r] = Append(@, callback)]

\* The call r._onChange(callback), which took World to m
Registered(m, r, callback) ==
  /\ Effects(World, m, [op |-> "_onChange", obj |-> r, callback |-> callback], "this")
  /\ ncalls' = ncalls
  /\ registered' = Registering(r, callback)

\* new CubicInterpolant([0, 1], [0, 1], 1)
Ramp == NewCubicInterpolant(<<Zero, One>>, <<Zero, One>>, 1, NoSettings)

\* The objects after construction: q1 = new Quaternion(q), e1 = new Euler(e),
\* the scratch objects of Euler.ts, and argument objects.
InitObjects(q, e) ==
  /\ quat = [r \in {"q1", "qa", "qb", "_quaternion"} |->
               IF r \in {"qa", "qb"}
               THEN [NewQuaternion(Zero, Zero, Zero, One) EXCEPT !.cb = ArgCallback]
               ELSE IF r = "q1" THEN NewQuaternion(q[1], q[2], q[3], q[4])
               ELSE NewQuaternion(Zero, Zero, Zero, One)]
  /\ euler = [r \in {"e1", "ea"} |->
                IF r = "ea"
                THEN [NewEuler(Zero, Zero, Zero, "XYZ") EXCEPT !.cb = ArgCallback]
                ELSE NewEuler(e[1], e[2], e[3], e[4])]
  /\ registered = [r \in {"q1", "qa", "qb", "_quaternion", "e1", "ea"} |->
                     IF r \in {"qa", "qb", "ea"} THEN <<ArgCallback>> ELSE <<>>]
  /\ _matrix = IdentityElements
  /\ log = <<>>
  /\ warn = 0
  /\ err = "none"
  /\ ret = "none"
  /\ last = [op |-> "new", obj |-> "none"]
  /\ ncalls = 0

-----------------------------------------------------------------------------
(* The flat-array functions, applied once to drawn buffers *)

\* The least positive number of the model
Tiny == Frac(1, Scale)

\* Quaternions packed into the buffers, all of computed length 1: the identity,
\* a half turn, minus the identity, a 3-4-5 rotation about y, a Hurwitz unit,
\* and the identity turned by the least representable amount.
FlatQuats ==
  { <<Zero, Zero, Zero, One>>,
    <<One, Zero, Zero, Zero>>,
    <<Zero, Zero, Zero, Whole(-1)>>,
    <<Zero, Frac(3, 5), Zero, Frac(4, 5)>>,
    <<Half, Half, Half, Half>>,
    <<Tiny, Zero, Zero, One>> }

\* Interpolation factors
TVals == {Zero, Frac(1, 4), Half, One}

\* Offsets of a quaternion in a buffer of eight numbers
FlatOffsets == {0, 2, 4}

InitFlat ==
  /\ InitObjects(<<Zero, Zero, Zero, One>>, <<Zero, Zero, Zero, "XYZ">>)
  /\ interpolant = Ramp
  /\ \E a \in FlatQuats, b \in FlatQuats, c \in FlatQuats :
       buf = [A |-> a \o b, B |-> c \o <<Whole(5), Whole(6), Whole(7), Whole(8)>>]
  /\ pre = [quat |-> quat, euler |-> euler, buf |-> buf]

\* Quaternion.multiplyQuaternionsFlat(dst, dstOffset, src0, srcOffset0, src1, srcOffset1)
MultiplyQuaternionsFlat ==
  /\ ncalls = 0
  /\ \E dst \in {"A", "B"}, dstOffset \in FlatOffsets, srcOffset0 \in FlatOffsets,
        src1 \in {"A", "B"}, srcOffset1 \in {0, 4} :
       Return(World,
              multiplyQuaternionsFlat(World, dst, dstOffset, "A", srcOffset0,
                                      src1, srcOffset1),
              [op |-> "multiplyQuaternionsFlat", obj |-> "Quaternion", dst |-> dst, dstOffset |-> dstOffset,
               src0 |-> "A", srcOffset0 |-> srcOffset0,
               src1 |-> src1, srcOffset1 |-> srcOffset1],
              dst)

\* Quaternion.slerpFlat(dst, dstOffset, src0, srcOffset0, src1, srcOffset1, t)
SlerpFlat ==
  /\ ncalls = 0
  /\ \E dst \in {"A", "B"}, dstOffset \in FlatOffsets, srcOffset0 \in {0, 4},
        src1 \in {"A", "B"}, srcOffset1 \in {0, 4}, t \in TVals :
       Return(World,
              slerpFlat(World, dst, dstOffset, "A", srcOffset0, src1, srcOffset1, t),
              [op |-> "slerpFlat", obj |-> "Quaternion", dst |-> dst, dstOffset |-> dstOffset,
               src0 |-> "A", srcOffset0 |-> srcOffset0,
               src1 |-> src1, srcOffset1 |-> srcOffset1, t |-> t],
              "none")

NextFlat == MultiplyQuaternionsFlat \/ SlerpFlat

SpecFlat == InitFlat /\ [][NextFlat]_vars

\* The four numbers at offset i of array a
Slice(a, i) == SubSeq(a, i + 1, i + 4)

\* The components of new Quaternion(a).multiplyQuaternions(new Quaternion(a), new Quaternion(b))
ProductOf(a, b) ==
  QValue(QMultiplyQuaternions(WithQuat(WithQuat(World, "qa", a), "qb", b),
                              "q1", "qa", "qb").quat["q1"])

\* The components of new Quaternion(a).slerp(new Quaternion(b), t)
SlerpOf(a, b, t) ==
  QValue(QSlerp(WithQuat(WithQuat(World, "q1", a), "qb", b), "q1", "qb", t).quat["q1"])

\* C1: multiplyQuaternionsFlat leaves in dst[dstOffset .. dstOffset+3] the
\* components multiplyQuaternions gives for the quaternions that were at
\* src0[srcOffset0..] and src1[srcOffset1..] when it was called, whichever of
\* the arrays are the same array, and changes no other element of any array.
C1_FlatProductIsProduct ==
  last.op = "multiplyQuaternionsFlat" =>
    /\ Slice(buf[last.dst], last.dstOffset)
         = ProductOf(Slice(pre.buf[last.src0], last.srcOffset0),
                     Slice(pre.buf[last.src1], last.srcOffset1))
    /\ \A b \in DOMAIN buf :
         /\ Len(buf[b]) = Len(pre.buf[b])
         /\ \A i \in 1..Len(buf[b]) :
              (b # last.dst \/ i <= last.dstOffset \/ i > last.dstOffset + 4)
                => buf[b][i] = pre.buf[b][i]

\* C1's case: the destination overlaps both sources in one array, and the
\* product differs from both factors.
C1_Witness ==
  /\ last.op = "multiplyQuaternionsFlat"
  /\ last.dst = "A" /\ last.src1 = "A"
  /\ last.dstOffset = 2 /\ last.srcOffset0 = 0 /\ last.srcOffset1 = 4
  /\ Slice(buf["A"], 2) # Slice(pre.buf["A"], 0)
  /\ Slice(buf["A"], 2) # Slice(pre.buf["A"], 4)
  /\ Slice(buf["A"], 2) # Slice(pre.buf["A"], 2)

\* C2 (as claimed): slerpFlat leaves in dst the components slerp gives for the
\* same two quaternions and the same t.
C2_SlerpFlatIsSlerp ==
  last.op = "slerpFlat" =>
    Slice(buf[last.dst], last.dstOffset)
      = SlerpOf(Slice(pre.buf[last.src0], last.srcOffset0),
                Slice(pre.buf[last.src1], last.srcOffset1), last.t)

-----------------------------------------------------------------------------
(* Quaternion and Euler objects: q1 and e1 receive the calls *)

Qi == <<Zero, Zero, Zero, One>>
Qx == <<One, Zero, Zero, Zero>>
Qr == <<Zero, Frac(3, 5), Zero, Frac(4, 5)>>
Qneg == <<Zero, Frac(-3, 5), Zero, Frac(-4, 5)>>
Qnear == <<Tiny, Zero, Zero, One>>
Qhalf == <<Zero, Zero, Zero, Half>>
Qtwo == <<Zero, Zero, Zero, Whole(2)>>
Qzero == <<Zero, Zero, Zero, Zero>>
Qtiny == <<Tiny, Zero, Zero, Zero>>

\* The quaternions q1 is constructed from
QReceivers == {Qi, Qr, Qhalf, Qtwo, Qzero, Qtiny}

\* The quaternions handed to slerp
QTargets == {Qi, Qx, Qr, Qneg, Qnear}

\* Matrix4 elements of the rotation with diagonal a, b, c
DiagElements(a, b, c) ==
  << a, Zero, Zero, Zero,  Zero, b, Zero, Zero,
     Zero, Zero, c, Zero,  Zero, Zero, Zero, One >>

\* The identity and the half turns about x, y and z
HalfTurns ==
  { IdentityElements,
    DiagElements(One, Whole(-1), Whole(-1)),
    DiagElements(Whole(-1), One, Whole(-1)),
    DiagElements(Whole(-1), Whole(-1), One) }

\* Matrix4 elements, column-major, of a matrix that is no rotation and has nine
\* different elements in its upper 3x3
SkewElements ==
  << Frac(1, 5), Frac(4, 5), Frac(-3, 5), Zero,
     Frac(-2, 5), Frac(-1, 5), Frac(-4, 5), Zero,
     Frac(3, 5), Frac(2, 5), Half, Zero,
     Zero, Zero, Zero, One >>

\* The skew matrix with each diagonal element replaced by -1, 0 or 1/2, and
\* the same with the fourth row and the fourth column replaced too
DiagonalValues == {Whole(-1), Zero, Half}

Diagonals ==
  { [SkewElements EXCEPT ![1] = d[1], ![6] = d[2], ![11] = d[3]] :
      d \in DiagonalValues \X DiagonalValues \X DiagonalValues } \cup
  { [SkewElements EXCEPT ![1] = d[1], ![6] = d[2], ![11] = d[3],
                         ![4] = Whole(7), ![8] = Whole(-8), ![12] = Whole(9),
                         ![13] = Whole(3), ![14] = Whole(-4), ![15] = Whole(5),
                         ![16] = Whole(6)] :
      d \in DiagonalValues \X DiagonalValues \X DiagonalValues }

\* Matrix4 elements of the quarter turn about y, where m13 = 1, and of the
\* turn about z with cosine 4/5 and sine 3/5
QuarterTurnY ==
  << Zero, Zero, Whole(-1), Zero,  Zero, One, Zero, Zero,
     One, Zero, Zero, Zero,  Zero, Zero, Zero, One >>

TurnZ ==
  << Frac(4, 5), Frac(3, 5), Zero, Zero,  Frac(-3, 5), Frac(4, 5), Zero, Zero,
     Zero, Zero, One, Zero,  Zero, Zero, Zero, One >>

V3(x, y, z) == [x |-> x, y |-> y, z |-> z]

\* An order argument that is none of the six
BadOrder == "ABC"

\* The values of an update argument: left out, true, false
Updates == {"undefined", "true", "false"}

Init ==
  /\ \E q \in QReceivers : InitObjects(q, <<One, Half, Frac(1, 4), "XYZ">>)
  /\ interpolant = Ramp
  /\ buf = [A |-> <<Half, Zero, Frac(3, 5), Zero, Frac(4, 5)>>]
  /\ pre = [quat |-> quat, euler |-> euler, buf |-> buf]

\* q1._onChange(callback)
Quaternion_onChange ==
  /\ ncalls < MaxCalls
  /\ Len(registered["q1"]) < MaxRegistrations
  /\ Registered(QOnChange(World, "q1", NextCallback("q1")), "q1", NextCallback("q1"))

\* q1.x = value, q1.y = value, q1.z = value, q1.w = value
QuaternionSetComponent ==
  /\ ncalls < MaxCalls
  /\ \E field \in {"x", "y", "z", "w"} :
       Return(World, QSetComponent(World, "q1", field, Half),
              [op |-> "setComponent", obj |-> "q1", field |-> field, value |-> Half],
              "none")

\* q1.set(x, y, z, w)
QuaternionSet ==
  /\ ncalls < MaxCalls
  /\ \E v \in {Qzero, Qx} :
       Return(World, QSet(World, "q1", v[1], v[2], v[3], v[4]),
              [op |-> "set", obj |-> "q1", v |-> v], "this")

\* q1.copy(q), q being q1 itself or another quaternion
QuaternionCopy ==
  /\ ncalls < MaxCalls
  /\ \E q \in {"q1", "qb"} :
       LET m0 == WithQuat(World, "qb", Qr)
       IN  Return(m0, QCopy(m0, "q1", q), [op |-> "copy", obj |-> "q1", q |-> q], "this")

\* q1.conjugate()
QuaternionConjugate ==
  /\ ncalls < MaxCalls
  /\ Return(World, QConjugate(World, "q1"), [op |-> "conjugate", obj |-> "q1"], "this")

\* q1.normalize()
QuaternionNormalize ==
  /\ ncalls < MaxCalls
  /\ Return(World, QNormalize(World, "q1"), [op |-> "normalize", obj |-> "q1"], "this")

\* q1.multiplyQuaternions(a, b), a and b being q1 itself or other quaternions
QuaternionMultiplyQuaternions ==
  /\ ncalls < MaxCalls
  /\ \E ab \in {<<"qa", "qb">>, <<"q1", "qb">>, <<"qa", "q1">>} :
       LET m0 == WithQuat(WithQuat(World, "qa", Qr), "qb", Qx)
       IN  Return(m0, QMultiplyQuaternions(m0, "q1", ab[1], ab[2]),
                  [op |-> "multiplyQuaternions", obj |-> "q1", a |-> ab[1], b |-> ab[2]],
                  "this")

\* q1.slerp(qb, t)
QuaternionSlerp ==
  /\ ncalls < MaxCalls
  /\ \E v \in QTargets, t \in {Zero, Half, One} :
       LET m0 == WithQuat(World, "qb", v)
       IN  Return(m0, QSlerp(m0, "q1", "qb", t),
                  [op |-> "slerp", obj |-> "q1", qb |-> "qb", t |-> t], "this")

\* q1.slerpQuaternions(qa, qb, t), q1 being neither, qa or qb
QuaternionSlerpQuaternions ==
  /\ ncalls < MaxCalls
  /\ \E ab \in {<<"qa", "qb">>, <<"q1", "qb">>, <<"qa", "q1">>}, t \in {Zero, Half, One} :
       LET m0 == WithQuat(WithQuat(World, "qa", Qx), "qb", Qr)
       IN  Return(m0, QSlerpQuaternions(m0, "q1", ab[1], ab[2], t),
                  [op |-> "slerpQuaternions", obj |-> "q1",
                   qa |-> ab[1], qb |-> ab[2], t |-> t], "this")

\* q1.multiply(q), q being q1 itself or another quaternion
QuaternionMultiply ==
  /\ ncalls < MaxCalls
  /\ \E q \in {"q1", "qb"} :
       LET m0 == WithQuat(World, "qb", Qx)
       IN  Return(m0, QMultiply(m0, "q1", q),
                  [op |-> "multiply", obj |-> "q1", q |-> q], "this")

\* q1.premultiply(q), q being q1 itself or another quaternion
QuaternionPremultiply ==
  /\ ncalls < MaxCalls
  /\ \E q \in {"q1", "qb"} :
       LET m0 == WithQuat(World, "qb", Qx)
       IN  Return(m0, QPremultiply(m0, "q1", q),
                  [op |-> "premultiply", obj |-> "q1", q |-> q], "this")

\* q1.rotateTowards(q, step), q being q1 itself or another quaternion
QuaternionRotateTowards ==
  /\ ncalls < MaxCalls
  /\ \E a \in {<<"q1", Qi>>} \cup ({"qb"} \X {Qi, Qx, Qr}), step \in {Zero, Half, Whole(4)} :
       LET m0 == WithQuat(World, "qb", a[2])
       IN  Return(m0, QRotateTowards(m0, "q1", a[1], step),
                  [op |-> "rotateTowards", obj |-> "q1", q |-> a[1], step |-> step],
                  "this")

\* q1.fromArray(array, offset)
QuaternionFromArray ==
  /\ ncalls < MaxCalls
  /\ \E offset \in {0, 1} :
       Return(World, QFromArray(World, "q1", "A", offset),
              [op |-> "fromArray", obj |-> "q1", array |-> "A", offset |-> offset], "this")

\* q1.setFromAxisAngle(axis, angle)
QuaternionSetFromAxisAngle ==
  /\ ncalls < MaxCalls
  /\ \E axis \in {V3(One, Zero, Zero), V3(Frac(3, 5), Zero, Frac(4, 5))} :
       Return(World, QSetFromAxisAngle(World, "q1", axis, One),
              [op |-> "setFromAxisAngle", obj |-> "q1", axis |-> axis, angle |-> One],
              "this")

\* q1.setFromRotationMatrix(m)
QuaternionSetFromRotationMatrix ==
  /\ ncalls < MaxCalls
  /\ \E te \in HalfTurns \cup Diagonals :
       Return(World, QSetFromRotationMatrix(World, "q1", te),
              [op |-> "setFromRotationMatrix", obj |-> "q1", m |-> te], "this")

\* Pairs of opposite vectors: along y, in the plane of x and y, with x and z
\* of one magnitude, with z the larger, and of length 2
OppositeVectors ==
  { <<V3(v[1], v[2], v[3]), V3(Neg(v[1]), Neg(v[2]), Neg(v[3]))>> :
      v \in { <<Zero, Whole(-1), Zero>>, <<Frac(3, 5), Frac(4, 5), Zero>>,
               <<Frac(-3, 5), Zero, Frac(3, 5)>>, <<Frac(3, 5), Zero, Frac(-4, 5)>>,
               <<Whole(-2), Zero, Zero>> } }

\* q1.setFromUnitVectors(vFrom, vTo)
QuaternionSetFromUnitVectors ==
  /\ ncalls < MaxCalls
  /\ \E vv \in { <<V3(One, Zero, Zero), V3(Whole(-1), Zero, Zero)>>,
                   <<V3(Zero, Zero, One), V3(Zero, Zero, Whole(-1))>>,
                   <<V3(One, Zero, Zero), V3(Zero, One, Zero)>> } \cup OppositeVectors :
       Return(World, QSetFromUnitVectors(World, "q1", vv[1], vv[2]),
              [op |-> "setFromUnitVectors", obj |-> "q1", vFrom |-> vv[1], vTo |-> vv[2]],
              "this")

\* q1.setFromEuler(euler, update): every order with update omitted, one order
\* and an order that is none of the six with update given
QuaternionSetFromEuler ==
  /\ ncalls < MaxCalls
  /\ \E a \in ((RotationOrders \cup {BadOrder}) \X {"undefined"})
                 \cup ({"XYZ", BadOrder} \X {"true", "false"}) :
       LET m0 == WithEuler(World, "ea", <<One, Half, Frac(1, 4), a[1]>>)
       IN  Return(m0, QSetFromEuler(m0, "q1", "ea", a[2]),
                  [op |-> "setFromEuler", obj |-> "q1", euler |-> "ea", update |-> a[2]],
                  "this")

\* q1.setFromEuler(euler, update) with euler undefined, null or the
\* Quaternion qa, which has no isEuler
QuaternionSetFromEulerThrows ==
  /\ ncalls < MaxCalls
  /\ \E a \in ({"undefined"} \X Updates) \cup ({"null", "qa"} \X {"undefined"}) :
       Return(World, QSetFromEuler(World, "q1", a[1], a[2]),
              [op |-> "setFromEuler", obj |-> "q1", euler |-> a[1], update |-> a[2]],
              "none")

\* q1.angleTo(q), q being q1 itself or another quaternion
QuaternionAngleTo ==
  /\ ncalls < MaxCalls
  /\ \E a \in {<<"q1", Qi>>} \cup ({"qb"} \X {Qi, Qx, Qr}) :
       LET m0 == WithQuat(World, "qb", a[2])
       IN  Return(m0, m0, [op |-> "angleTo", obj |-> "q1", q |-> a[1]],
                  QAngleTo(m0, "q1", a[1]))

\* e1._onChange(callback)
Euler_onChange ==
  /\ ncalls < MaxCalls
  /\ Len(registered["e1"]) < MaxRegistrations
  /\ Registered(EOnChange(World, "e1", NextCallback("e1")), "e1", NextCallback("e1"))

\* e1.x = value, e1.y = value, e1.z = value, e1.order = value
EulerSetComponent ==
  /\ ncalls < MaxCalls
  /\ \E a \in ({"x", "y", "z"} \X {Zero}) \cup {<<"order", "ZYX">>} :
       Return(World, ESetComponent(World, "e1", a[1], a[2]),
              [op |-> "setComponent", obj |-> "e1", field |-> a[1], value |-> a[2]],
              "none")

\* e1.set(x, y, z, order) and e1.set(x, y, z)
EulerSet ==
  /\ ncalls < MaxCalls
  /\ \E order \in {"undefined", "YZX"} :
       Return(World, ESet(World, "e1", Half, Zero, One, order),
              [op |-> "set", obj |-> "e1", order |-> order], "this")

\* e1.clone()
EulerClone ==
  /\ ncalls < MaxCalls
  /\ Return(World, World, [op |-> "clone", obj |-> "e1"], EClone(World, "e1"))

\* e1.copy(e), e being e1 itself or another Euler
EulerCopy ==
  /\ ncalls < MaxCalls
  /\ \E e \in {"e1", "ea"} :
       LET m0 == WithEuler(World, "ea", <<Zero, Half, One, "ZXY">>)
       IN  Return(m0, ECopy(m0, "e1", e), [op |-> "copy", obj |-> "e1", e |-> e], "this")

\* e1.fromArray(array), with and without an order
EulerFromArray ==
  /\ ncalls < MaxCalls
  /\ \E array \in {<<Zero, One, Half>>, <<Zero, One, Half, "XZY">>} :
       Return(World, EFromArray(World, "e1", array),
              [op |-> "fromArray", obj |-> "e1", array |-> array], "this")

\* e1.setFromVector3(v, order) and e1.setFromVector3(v)
EulerSetFromVector3 ==
  /\ ncalls < MaxCalls
  /\ \E order \in {"undefined", "YXZ"} :
       Return(World, ESetFromVector3(World, "e1", V3(Half, One, Zero), order),
              [op |-> "setFromVector3", obj |-> "e1", order |-> order], "this")

\* e1.setFromRotationMatrix(m, order, update)
EulerSetFromRotationMatrix ==
  /\ ncalls < MaxCalls
  /\ \E te \in {QuarterTurnY, TurnZ},
        order \in RotationOrders \cup {"undefined", "", BadOrder}, update \in Updates :
       Return(World, ESetFromRotationMatrix(World, "e1", te, order, update),
              [op |-> "setFromRotationMatrix", obj |-> "e1", m |-> te,
               order |-> order, update |-> update], "this")

\* e1.setFromQuaternion(q, order, update)
EulerSetFromQuaternion ==
  /\ ncalls < MaxCalls
  /\ \E v \in {Qr, Qx}, order \in {"undefined", "ZYX", BadOrder}, update \in Updates :
       LET m0 == WithQuat(World, "qa", v)
       IN  Return(m0, ESetFromQuaternion(m0, "e1", "qa", order, update),
                  [op |-> "setFromQuaternion", obj |-> "e1", q |-> "qa",
                   order |-> order, update |-> update], "this")

\* e1.reorder(newOrder)
EulerReorder ==
  /\ ncalls < MaxCalls
  /\ \E newOrder \in {"YXZ", "ZYX", BadOrder} :
       Return(World, EReorder(World, "e1", newOrder),
              [op |-> "reorder", obj |-> "e1", newOrder |-> newOrder], "this")

Next ==
  \/ Quaternion_onChange
  \/ QuaternionSetComponent
  \/ QuaternionSet
  \/ QuaternionCopy
  \/ QuaternionConjugate
  \/ QuaternionNormalize
  \/ QuaternionMultiplyQuaternions
  \/ QuaternionSlerp
  \/ QuaternionSlerpQuaternions
  \/ QuaternionMultiply
  \/ QuaternionPremultiply
  \/ QuaternionRotateTowards
  \/ QuaternionFromArray
  \/ QuaternionSetFromAxisAngle
  \/ QuaternionSetFromRotationMatrix
  \/ QuaternionSetFromUnitVectors
  \/ QuaternionSetFromEuler
  \/ QuaternionSetFromEulerThrows
  \/ QuaternionAngleTo
  \/ Euler_onChange
  \/ EulerSetComponent
  \/ EulerSet
  \/ EulerClone
  \/ EulerCopy
  \/ EulerFromArray
  \/ EulerSetFromVector3
  \/ EulerSetFromRotationMatrix
  \/ EulerSetFromQuaternion
  \/ EulerReorder

Spec == Init /\ [][Next]_vars

\* The calls on q1
NextQuaternion ==
  \/ Quaternion_onChange
  \/ QuaternionSetComponent
  \/ QuaternionSet
  \/ QuaternionCopy
  \/ QuaternionConjugate
  \/ QuaternionNormalize
  \/ QuaternionMultiplyQuaternions
  \/ QuaternionSlerp
  \/ QuaternionSlerpQuaternions
  \/ QuaternionMultiply
  \/ QuaternionPremultiply
  \/ QuaternionRotateTowards
  \/ QuaternionFromArray
  \/ QuaternionSetFromAxisAngle
  \/ QuaternionSetFromRotationMatrix
  \/ QuaternionSetFromUnitVectors
  \/ QuaternionSetFromEuler
  \/ QuaternionSetFromEulerThrows
  \/ QuaternionAngleTo

SpecQuaternion == Init /\ [][NextQuaternion]_vars

\* The calls on e1
NextEuler ==
  \/ Euler_onChange
  \/ EulerSetComponent
  \/ EulerSet
  \/ EulerClone
  \/ EulerCopy
  \/ EulerFromArray
  \/ EulerSetFromVector3
  \/ EulerSetFromRotationMatrix
  \/ EulerSetFromQuaternion
  \/ EulerReorder

\* One Quaternion receives no calls
InitEuler ==
  /\ InitObjects(Qi, <<One, Half, Frac(1, 4), "XYZ">>)
  /\ interpolant = Ramp
  /\ buf = [A |-> <<>>]
  /\ pre = [quat |-> quat, euler |-> euler, buf |-> buf]

SpecEuler == InitEuler /\ [][NextEuler]_vars

\* The places in the elements of m12, m13, m21, m23, m31, m32: the elements
\* setFromRotationMatrix hands to asin
AsinPlaces == {5, 9, 2, 10, 3, 7}

\* The matrices handed to setFromRotationMatrix: a quarter turn, a turn about
\* z, and the skew matrix with one element replaced by 1, -1, a number past
\* them, a number just inside them, or NaN
Matrices ==
  {QuarterTurnY, TurnZ, SkewElements} \cup
  { [SkewElements EXCEPT ![k] = v] :
      k \in AsinPlaces,
      v \in {One, Whole(-1), Whole(2), Frac(-3, 2), Frac(999, 1000), NaN} }

\* e1.setFromRotationMatrix(m, order) for each of the six orders
EulerSetFromAnyMatrix ==
  /\ ncalls < MaxCalls
  /\ \E te \in Matrices, order \in RotationOrders :
       Return(World, ESetFromRotationMatrix(World, "e1", te, order, "undefined"),
              [op |-> "setFromRotationMatrix", obj |-> "e1", m |-> te,
               order |-> order, update |-> "undefined"], "this")

\* Most conversions from a quaternion made in one run
MaxConversions == 2

\* The quaternions converted: the identity, a half turn about x, a turn about
\* y, and a quaternion of four different components
Qmixed == <<Frac(1, 10), Frac(1, 2), Frac(-1, 5), Frac(4, 5)>>

\* e1.setFromQuaternion(q, order), one call after another
EulerConvert ==
  /\ ncalls < MaxConversions
  /\ \E v \in {Qi, Qx, Qr, Qmixed}, order \in RotationOrders \cup {"undefined", BadOrder} :
       LET m0 == WithQuat(World, "qa", v)
       IN  Return(m0, ESetFromQuaternion(m0, "e1", "qa", order, "undefined"),
                  [op |-> "setFromQuaternion", obj |-> "e1", q |-> "qa",
                   order |-> order, update |-> "undefined"], "this")

NextScratch == EulerConvert

SpecScratch == InitEuler /\ [][NextScratch]_vars

NextGimbal == EulerSetFromAnyMatrix \/ Euler_onChange

SpecGimbal == InitEuler /\ [][NextGimbal]_vars

\* q1 and two arrays that hold quaternions
InitSlerp ==
  /\ \E q \in QReceivers : InitObjects(q, <<Zero, Zero, Zero, "XYZ">>)
  /\ interpolant = Ramp
  /\ \E a \in FlatQuats :
       buf = [A |-> a \o Qr, B |-> Qx \o <<Whole(5), Whole(6), Whole(7), Whole(8)>>]
  /\ pre = [quat |-> quat, euler |-> euler, buf |-> buf]

\* The two interpolations
NextSlerp == QuaternionSlerp \/ SlerpFlat

SpecSlerp == InitSlerp /\ [][NextSlerp]_vars

\* The angles of the Eulers of test-euler.ts, and others: three angles that
\* differ, an angle beyond pi, a middle angle of pi / 2, negative angles
TripAngles ==
  { <<Zero, Zero, Zero>>, <<One, Zero, Zero>>, <<Zero, One, Zero>>,
    <<One, Half, Frac(1, 4)>>, <<Whole(4), Zero, Zero>>,
    <<Frac(1, 4), OfGrid(HalfPiG), Half>>, <<Whole(-1), Frac(-1, 2), Frac(5, 4)>> }

\* The world with q = new Quaternion(), q2 = new Quaternion() and
\* v2 = new Euler(), held by qa, qb and ea
WithNewObjects(m) ==
  WithEuler(WithQuat(WithQuat(m, "qa", Qi), "qb", Qi), "ea", <<Zero, Zero, Zero, "XYZ">>)

\* test-euler.ts, lines 255-259: q = new Quaternion().setFromEuler(v),
\* v2 = new Euler().setFromQuaternion(q, v.order),
\* q2 = new Quaternion().setFromEuler(v2)
RoundTripOf(m, v) ==
  QSetFromEuler(
    ESetFromQuaternion(QSetFromEuler(WithNewObjects(m), "qa", v, "undefined"),
                       "ea", "qa", m.euler[v].order, "undefined"),
    "qb", "ea", "undefined")

\* test-euler.ts, lines 287-291: q = new Quaternion().setFromEuler(v),
\* v.reorder(newOrder), q2 = new Quaternion().setFromEuler(v)
ReorderTripOf(m, v, newOrder) ==
  QSetFromEuler(
    EReorder(QSetFromEuler(WithNewObjects(m), "qa", v, "undefined"), v, newOrder),
    "qb", v, "undefined")

InitRoundTrip ==
  /\ \E a \in TripAngles, order \in RotationOrders :
       InitObjects(Qi, <<a[1], a[2], a[3], order>>)
  /\ interpolant = Ramp
  /\ buf = [A |-> <<>>]
  /\ pre = [quat |-> quat, euler |-> euler, buf |-> buf]

\* The round trip from e1 to a quaternion, an Euler of the same order, and a
\* quaternion
EulerRoundTrip ==
  /\ ncalls < MaxCalls
  /\ Return(World, RoundTripOf(World, "e1"),
            [op |-> "roundTrip", obj |-> "e1", order |-> euler["e1"].order], "none")

\* The quaternion of e1 before and after e1.reorder(newOrder)
EulerReorderTrip ==
  /\ ncalls < MaxCalls
  /\ \E newOrder \in RotationOrders :
       Return(World, ReorderTripOf(World, "e1", newOrder),
              [op |-> "reorderTrip", obj |-> "e1", order |-> newOrder], "none")

NextRoundTrip == EulerRoundTrip \/ EulerReorderTrip

SpecRoundTrip == InitRoundTrip /\ [][NextRoundTrip]_vars

\* e1 is constructed with each of the angles and orders, an order that is
\* none of the six among them
InitArray ==
  /\ \E a \in TripAngles, order \in RotationOrders \cup {BadOrder} :
       InitObjects(Qi, <<a[1], a[2], a[3], order>>)
  /\ interpolant = Ramp
  /\ buf = [A |-> <<>>]
  /\ pre = [quat |-> quat, euler |-> euler, buf |-> buf]

\* World with the array b replaced by a
WithArray(m, b, a) == [m EXCEPT !.buf[b] = a]

\* e1.toArray(array, offset), array being empty or holding six numbers
EulerToArray ==
  /\ ncalls < MaxCalls
  /\ \E array \in {<<>>, <<Whole(5), Whole(6), Whole(7), Whole(8), Whole(9), Whole(10)>>},
        offset \in {0, 1} :
       LET m0 == WithArray(World, "A", array)
       IN  Return(m0, EToArray(m0, "e1", "A", offset),
                  [op |-> "toArray", obj |-> "e1", array |-> "A", offset |-> offset], "A")

\* new Euler().fromArray(e1.toArray())
EulerArrayRoundTrip ==
  /\ ncalls < MaxCalls
  /\ LET m0 == WithEuler(WithArray(World, "A", <<>>), "ea", <<Zero, Zero, Zero, "XYZ">>)
         m1 == EToArray(m0, "e1", "A", 0)
     IN  Return(m0, EFromArray(m1, "ea", m1.buf["A"]),
                [op |-> "arrayRoundTrip", obj |-> "e1"], "ea")

NextArray == Euler_onChange \/ EulerToArray \/ EulerFromArray \/ EulerArrayRoundTrip

SpecArray == InitArray /\ [][NextArray]_vars

-----------------------------------------------------------------------------
(* Properties of the calls on q1 and e1 *)

\* The world the last call started in
PreWorld == [World EXCEPT !.quat = pre.quat, !.euler = pre.euler, !.buf = pre.buf]

\* What q1 and the argument of the last call held when the call started
QBefore == QValue(pre.quat["q1"])
QArgument(r) == QValue(pre.quat[r])

NegQ(v) == <<Neg(v[1]), Neg(v[2]), Neg(v[3]), Neg(v[4])>>

\* new Quaternion(a).angleTo(new Quaternion(b))
AngleOf(a, b) == QAngleTo(WithQuat(WithQuat(World, "q1", a), "qb", b), "q1", "qb")

\* The cosine slerp computed in the last call
SlerpCos ==
  SlerpDot(pre.quat["q1"].x, pre.quat["q1"].y, pre.quat["q1"].z, pre.quat["q1"].w,
           pre.quat[last.qb])

\* The last call was q1.slerp and gave what q1.slerp gives for the negated target
SlerpOfNegatedIsSame ==
  QValue(quat["q1"]) = SlerpOf(QBefore, NegQ(QArgument(last.qb)), last.t)

\* The last call was q1.angleTo and gave what q1.angleTo gives for the negated target
AngleToNegatedIsSame == ret = AngleOf(QBefore, NegQ(QArgument(last.q)))

\* C3 (as claimed): slerp gives the same quaternion, and angleTo the same angle,
\* for a target q and for its negation -q, whatever p, q and t are.
C3_DoubleCover ==
  /\ (last.obj = "q1" /\ last.op = "slerp") => SlerpOfNegatedIsSame
  /\ (last.obj = "q1" /\ last.op = "angleTo") => AngleToNegatedIsSame

\* C3 (amended): slerp gives the same quaternion for q and for -q when t is 0,
\* or when t is not 1 and the dot product of p and q that slerp computes is not
\* zero; angleTo gives the same angle for q and for -q.
C3_DoubleCoverAwayFromCopyAndRightAngle ==
  /\ ( /\ last.obj = "q1" /\ last.op = "slerp"
       /\ \/ Eq(last.t, Zero)
          \/ ~Eq(last.t, One) /\ ~Eq(SlerpCos, Zero) ) => SlerpOfNegatedIsSame
  /\ (last.obj = "q1" /\ last.op = "angleTo") => AngleToNegatedIsSame

\* C3's case: a slerp half way towards a target at an obtuse angle, which
\* moved q1 to a quaternion that is neither end.
C3_Witness ==
  /\ last.obj = "q1" /\ last.op = "slerp" /\ last.t = Half
  /\ Lt(SlerpCos, Zero)
  /\ QValue(quat["q1"]) # QBefore
  /\ QValue(quat["q1"]) # NegQ(QArgument(last.qb))
  /\ SlerpOfNegatedIsSame

\* C4 (as claimed): q.angleTo(q) is 0 whatever the components of q.
C4_AngleToSelfIsZero ==
  (last.obj = "q1" /\ last.op = "angleTo" /\ last.q = "q1") => ret = Zero

\* C4 (amended): q.angleTo(q) is 0 when the dot product of q with itself, as
\* dot computes it, is at least 1.
C4_AngleToSelfIsZeroFromLengthOne ==
  ( /\ last.obj = "q1" /\ last.op = "angleTo" /\ last.q = "q1"
    /\ Le(One, QDot(quat["q1"], quat["q1"])) ) => ret = Zero

\* C4's case: the angle of a quaternion longer than 1 to itself, where the
\* clamp acts.
C4_Witness ==
  /\ last.obj = "q1" /\ last.op = "angleTo" /\ last.q = "q1"
  /\ Lt(One, QDot(quat["q1"], quat["q1"]))
  /\ ret = Zero

\* C12 (as claimed): q1.slerpQuaternions(qa, qb, t) leaves in q1 what
\* new Quaternion(qa).slerp(qb, t) gives for the values qa and qb held when the
\* call started, also when q1 is qa or qb, and leaves qa as it was when qa is
\* not q1.
C12_SlerpQuaternionsIsSlerp ==
  (last.obj = "q1" /\ last.op = "slerpQuaternions") =>
    /\ QValue(quat["q1"]) = SlerpOf(QArgument(last.qa), QArgument(last.qb), last.t)
    /\ last.qa # "q1" => quat[last.qa] = pre.quat[last.qa]

\* C12 (amended): q1.slerpQuaternions(qa, qb, t) with qb another object than
\* q1 leaves in q1 what new Quaternion(qa).slerp(qb, t) gives for the values
\* held when the call started, also when q1 is qa, and leaves qa as it was
\* when qa is not q1.
C12_SlerpQuaternionsIsSlerpOfOtherTarget ==
  (last.obj = "q1" /\ last.op = "slerpQuaternions" /\ last.qb # "q1") =>
    /\ QValue(quat["q1"]) = SlerpOf(QArgument(last.qa), QArgument(last.qb), last.t)
    /\ last.qa # "q1" => quat[last.qa] = pre.quat[last.qa]

\* C12's case: q1.slerpQuaternions(q1, qb, 1/2), which moved q1 to a quaternion
\* that is neither end.
C12_Witness ==
  /\ last.obj = "q1" /\ last.op = "slerpQuaternions"
  /\ last.qa = "q1" /\ last.qb = "qb" /\ last.t = Half
  /\ QValue(quat["q1"]) # QBefore
  /\ QValue(quat["q1"]) # QArgument("qb")
  /\ QValue(quat["q1"]) = SlerpOf(QBefore, QArgument("qb"), Half)

\* C13: q1.slerp(q, 0) leaves the components of q1 as they were and returns
\* q1, q1.slerp(q, 1) leaves in q1 the components of q; slerpFlat with t = 0
\* leaves in the destination the four numbers that were at the first source,
\* with t = 1 those that were at the second.
C13_SlerpAtTheEnds ==
  /\ (last.obj = "q1" /\ last.op = "slerp" /\ Eq(last.t, Zero)) =>
       QValue(quat["q1"]) = QBefore /\ ret = "this"
  /\ (last.obj = "q1" /\ last.op = "slerp" /\ Eq(last.t, One)) =>
       QValue(quat["q1"]) = QArgument(last.qb) /\ ret = "this"
  /\ (last.op = "slerpFlat" /\ Eq(last.t, Zero)) =>
       Slice(buf[last.dst], last.dstOffset) = Slice(pre.buf[last.src0], last.srcOffset0)
  /\ (last.op = "slerpFlat" /\ Eq(last.t, One)) =>
       Slice(buf[last.dst], last.dstOffset) = Slice(pre.buf[last.src1], last.srcOffset1)

\* C13's case: q1.slerp(q, 1) with q of a length other than 1 and at a dot
\* product with q1 of more than 1, which changed q1.
C13_Witness ==
  /\ last.obj = "q1" /\ last.op = "slerp" /\ Eq(last.t, One)
  /\ Lt(One, SlerpCos)
  /\ QValue(quat["q1"]) # QBefore
  /\ QValue(quat["q1"]) = QArgument(last.qb)

\* The components v scaled by the factor r
Scaled(v, r) == <<Mul(v[1], r), Mul(v[2], r), Mul(v[3], r), Mul(v[4], r)>>

\* C14 (as claimed): q1.normalize() invokes the callback of q1 once; on
\* (0, 0, 0, 0) it leaves (0, 0, 0, 1) in q1, and on any other quaternion it
\* leaves each component multiplied by 1 / length().
C14_NormalizeGuardsOnlyZero ==
  (last.obj = "q1" /\ last.op = "normalize") =>
    /\ log = <<[obj |-> "q1", fn |-> LastRegistered("q1"), val |-> QValue(quat["q1"])]>>
    /\ QBefore = Qzero => QValue(quat["q1"]) = Qi
    /\ QBefore # Qzero =>
         QValue(quat["q1"]) = Scaled(QBefore, Div(One, QLength(pre.quat["q1"])))

\* C14 (amended): q1.normalize() invokes the callback of q1 once; on a
\* quaternion whose length() is 0 it leaves (0, 0, 0, 1) in q1, and on a
\* quaternion whose length() is not 0 it leaves each component multiplied by
\* 1 / length().
C14_NormalizeGuardsZeroLength ==
  (last.obj = "q1" /\ last.op = "normalize") =>
    /\ log = <<[obj |-> "q1", fn |-> LastRegistered("q1"), val |-> QValue(quat["q1"])]>>
    /\ Eq(QLength(pre.quat["q1"]), Zero) => QValue(quat["q1"]) = Qi
    /\ ~Eq(QLength(pre.quat["q1"]), Zero) =>
         QValue(quat["q1"]) = Scaled(QBefore, Div(One, QLength(pre.quat["q1"])))

\* C14's case: normalize of (0, 0, 0, 0) with a registered callback.
C14_Witness ==
  /\ last.obj = "q1" /\ last.op = "normalize"
  /\ QBefore = Qzero
  /\ QValue(quat["q1"]) = Qi
  /\ log = <<[obj |-> "q1", fn |-> "f", val |-> Qi]>>

\* C15: q1.setFromEuler with an argument that is no Euler throws an Error,
\* leaves every Quaternion as it was and invokes no callback.
C15_SetFromEulerThrowsUntouched ==
  (last.obj = "q1" /\ last.op = "setFromEuler" /\ last.euler \notin DOMAIN euler) =>
    /\ err = "Error"
    /\ quat = pre.quat
    /\ log = <<>>

\* C15's case: setFromEuler(null) on a quaternion other than the identity
\* with a registered callback.
C15_Witness ==
  /\ last.obj = "q1" /\ last.op = "setFromEuler" /\ last.euler = "null"
  /\ err = "Error"
  /\ quat["q1"].cb = "f"
  /\ QValue(quat["q1"]) = Qr

\* test-euler.ts, quatEquals: the sum of the absolute differences of the
\* components of a and b
QuatDiff(a, b) ==
  Add(Add(Add(Abs(Sub(a[1], b[1])), Abs(Sub(a[2], b[2]))), Abs(Sub(a[3], b[3]))),
      Abs(Sub(a[4], b[4])))

\* The element of the rotation matrix te whose magnitude setFromRotationMatrix
\* compares with 0.9999999 for the order
TestedElement(te, order) ==
  CASE order = "XYZ" -> te[9]
    [] order = "YXZ" -> te[10]
    [] order = "ZXY" -> te[7]
    [] order = "ZYX" -> te[3]
    [] order = "YZX" -> te[2]
    [] order = "XZY" -> te[5]

\* The last call was one of the two round trips
RoundTripped == last.obj = "e1" /\ last.op \in {"roundTrip", "reorderTrip"}

\* The setter-style mutations of Quaternion
SetterOps ==
  {"set", "copy", "conjugate", "normalize", "multiplyQuaternions", "slerp",
   "fromArray", "setFromAxisAngle", "setFromRotationMatrix", "setFromUnitVectors",
   "setFromEuler"}

\* C5 (as claimed): when a setter-style mutation of q1 (setFromEuler with
\* update left out) returns, no component has been written since the change
\* callback was last invoked, and the value that invocation observed is the
\* value q1 holds.
C5_CallbackSeesFinalValue ==
  ( /\ last.obj = "q1" /\ last.op \in SetterOps /\ err = "none"
    /\ last.op = "setFromEuler" => last.update = "undefined" ) =>
    /\ ~quat["q1"].dirty
    /\ log # <<>> => log[Len(log)].val = QValue(quat["q1"])

\* The invocations of r's change callback in the last call
Invocations(r) == SelectSeq(log, LAMBDA entry : entry.obj = r)

\* The last call was a conversion of e1 from a matrix or a quaternion
ConvertedE1 ==
  last.obj = "e1" /\ last.op \in {"setFromRotationMatrix", "setFromQuaternion"}

\* e1 after the last call, a conversion, made silently in the world it started in
SilentlyConverted ==
  IF last.op = "setFromRotationMatrix"
  THEN ESetFromRotationMatrix(PreWorld, "e1", last.m, last.order, "false").euler["e1"]
  ELSE ESetFromQuaternion(PreWorld, "e1", last.q, last.order, "false").euler["e1"]

\* C6: setFromRotationMatrix and setFromQuaternion invoke e1's registered
\* callback once when update is left out or true and never when it is false,
\* and leave in e1 the angles and the order they leave when called with false.
C6_UpdateFlagOnlySilences ==
  ConvertedE1 =>
    /\ Len(Invocations("e1")) = IF last.update = "false" THEN 0 ELSE 1
    /\ \A i \in DOMAIN Invocations("e1") :
         Invocations("e1")[i].fn = LastRegistered("e1")
    /\ EValue(euler["e1"]) = EValue(SilentlyConverted)

\* C6's case: a conversion with update false that changed angles and order of
\* an Euler with a registered callback, and invoked nothing.
C6_Witness ==
  /\ ConvertedE1 /\ last.op = "setFromQuaternion" /\ last.update = "false"
  /\ LastRegistered("e1") = "f"
  /\ euler["e1"].order # pre.euler["e1"].order
  /\ euler["e1"].x # pre.euler["e1"].x
  /\ log = <<>>

\* The callback object r holds
Slot(r) == IF r \in DOMAIN quat THEN quat[r]["cb"] ELSE euler[r]["cb"]

\* C7: each Quaternion and Euler holds the callback last handed to its
\* _onChange, the empty one if none was, and every invocation made by a call
\* is an invocation of that callback.
C7_LastRegistrationWins ==
  /\ \A r \in DOMAIN registered : Slot(r) = LastRegistered(r)
  /\ \A i \in DOMAIN log : log[i].fn = LastRegistered(log[i].obj)

\* C7's case: f was registered on q1, then g, and a later mutation invoked g.
C7_Witness ==
  /\ registered["q1"] = <<"f", "g">>
  /\ last.obj = "q1" /\ last.op = "set"
  /\ log = <<[obj |-> "q1", fn |-> "g", val |-> QValue(quat["q1"])]>>

\* C8 (as claimed): the order e1 stores is one of the six, whatever calls were
\* made on it.
C8_OrderIsOneOfSix == euler["e1"].order \in RotationOrders

\* C9: clone invokes no callback, changes nothing and returns an Euler that
\* equals e1 and holds the empty callback; copy(e) leaves in e1 the angles and
\* order of e, leaves e and e1's callback as they were, and invokes e1's
\* callback once and no other.
C9_CloneAndCopy ==
  /\ (last.obj = "e1" /\ last.op = "clone") =>
       /\ log = <<>>
       /\ EEquals(ret, euler["e1"])
       /\ ret.cb = "noop"
       /\ euler = pre.euler /\ quat = pre.quat
  /\ (last.obj = "e1" /\ last.op = "copy") =>
       /\ EValue(euler["e1"]) = EValue(pre.euler[last.e])
       /\ EValue(euler[last.e]) = EValue(pre.euler[last.e])
       /\ euler["ea"] = pre.euler["ea"]
       /\ euler["e1"].cb = pre.euler["e1"].cb
       /\ log = <<[obj |-> "e1", fn |-> pre.euler["e1"].cb, val |-> EValue(euler["e1"])]>>

\* C9's case: a copy from an Euler with another callback into an Euler with a
\* registered callback, which changed its angles and order.
C9_Witness ==
  /\ last.obj = "e1" /\ last.op = "copy" /\ last.e = "ea"
  /\ euler["e1"].cb = "f" /\ euler["ea"].cb = "h"
  /\ euler["e1"].order # pre.euler["e1"].order
  /\ euler["e1"].x # pre.euler["e1"].x

-----------------------------------------------------------------------------
(* A CubicInterpolant evaluated at a non-decreasing sequence of t *)

\* Most evaluate calls made in a run
MaxEvaluations == 3

\* Four samples of one number, three samples of two numbers, two samples of
\* one number and two samples of two numbers, as
\* <<parameterPositions, sampleValues, sampleSize>>
Tracks ==
  { << <<Zero, One, Whole(2), Whole(4)>>,
       <<Zero, One, Zero, Whole(2)>>, 1 >>,
    << <<Zero, Whole(2), Whole(3)>>,
       <<Zero, One,  Whole(2), Whole(-1),  One, Half>>, 2 >>,
    << <<Zero, One>>,
       <<Zero, Whole(10)>>, 1 >>,
    << <<One, Whole(3)>>,
       <<One, Whole(-1),  Whole(3), Half>>, 2 >> }

\* The settings assigned to the interpolant: none, or a pair of endings
Settings ==
  {NoSettings} \cup [endingStart : Endings, endingEnd : Endings]

\* The values of t: before the first position, at positions, between them and
\* after the last
Times ==
  { Whole(-1), Zero, Frac(1, 11), Half, One, Frac(3, 2), Whole(2), Frac(5, 2),
    Whole(3), Whole(4), Whole(5) }

InitInterpolant ==
  /\ InitObjects(<<Zero, Zero, Zero, One>>, <<Zero, Zero, Zero, "XYZ">>)
  /\ buf = [A |-> <<>>]
  /\ pre = [quat |-> quat, euler |-> euler, buf |-> buf]
  /\ \E track \in Tracks, settings \in Settings :
       interpolant = NewCubicInterpolant(track[1], track[2], track[3], settings)

\* interpolant.evaluate(t), t being no less than the t of the last call
Evaluate ==
  /\ ncalls < MaxEvaluations
  /\ \E t \in Times :
       /\ last.op = "evaluate" => Le(last.t, t)
       /\ interpolant' = evaluate(interpolant, t)
       /\ ret' = interpolant'.resultBuffer
       /\ last' = [op |-> "evaluate", obj |-> "interpolant", t |-> t]
       /\ pre' = [quat |-> quat, euler |-> euler, buf |-> buf,
                  interpolant |-> interpolant]
       /\ ncalls' = ncalls + 1
       /\ UNCHANGED <<quat, euler, buf, _matrix, log, warn, err, registered>>

NextInterpolant == Evaluate

SpecInterpolant == InitInterpolant /\ [][NextInterpolant]_vars

\* The result buffers handed to the constructor: one of the stride, or one
\* that is longer by an element; every element is 7
ResultBuffers(sampleSize) ==
  { [i \in 1..(sampleSize + extra) |-> Whole(7)] : extra \in {0, 1} }

\* new CubicInterpolant(parameterPositions, sampleValues, sampleSize,
\* resultBuffer), with the settings assigned to it afterwards
InitInterpolate ==
  /\ InitObjects(<<Zero, Zero, Zero, One>>, <<Zero, Zero, Zero, "XYZ">>)
  /\ buf = [A |-> <<>>]
  /\ pre = [quat |-> quat, euler |-> euler, buf |-> buf]
  /\ \E track \in Tracks, settings \in Settings :
       \E buffer \in ResultBuffers(track[3]) :
         interpolant =
           [NewCubicInterpolant(track[1], track[2], track[3], settings)
              EXCEPT !.resultBuffer = buffer]

\* The changes of a direct call of a method of the interpolant
Interpolated(c, call, result) ==
  /\ interpolant' = c
  /\ ret' = result
  /\ last' = call
  /\ pre' = [quat |-> quat, euler |-> euler, buf |-> buf, interpolant |-> interpolant,
             ret |-> ret, last |-> last]
  /\ ncalls' = ncalls + 1
  /\ UNCHANGED <<quat, euler, buf, _matrix, log, warn, err, registered>>

\* interpolant.intervalChanged_(i1, pp[i1 - 1], pp[i1])
CallIntervalChanged ==
  /\ ncalls < MaxEvaluations
  /\ \E i1 \in 1..(Len(interpolant.parameterPositions) - 1) :
       Interpolated(intervalChanged_(interpolant, i1, Position(interpolant, i1 - 1),
                                     Position(interpolant, i1)),
                    [op |-> "intervalChanged_", obj |-> "interpolant", i1 |-> i1],
                    "undefined")

\* interpolant.interpolate_(i1, pp[i1 - 1], t, pp[i1]) for the interval of the
\* last intervalChanged_ and a t in it
CallInterpolate ==
  /\ ncalls < MaxEvaluations
  /\ last.op \in {"intervalChanged_", "interpolate_"}
  /\ \E t \in Times :
       /\ Le(Position(interpolant, last.i1 - 1), t)
       /\ Le(t, Position(interpolant, last.i1))
       /\ Interpolated(interpolate_(interpolant, last.i1,
                                    Position(interpolant, last.i1 - 1), t,
                                    Position(interpolant, last.i1)),
                       [op |-> "interpolate_", obj |-> "interpolant",
                        i1 |-> last.i1, t |-> t],
                       interpolate_Returns)

NextInterpolate == CallIntervalChanged \/ CallInterpolate

SpecInterpolate == InitInterpolate /\ [][NextInterpolate]_vars

\* The tracks, and two positions so close that 2 * t0 - t1 and 2 * t1 - t0
\* are rounded
CloseTrack == << <<Frac(1, Scale), Frac(1, Scale - 1)>>, <<Zero, One>>, 1 >>

\* Four samples of one number that is the same in all
ConstantTrack ==
  << <<Zero, One, Whole(3), Whole(4)>>, <<Whole(5), Whole(5), Whole(5), Whole(5)>>, 1 >>

InitStencil ==
  /\ InitObjects(<<Zero, Zero, Zero, One>>, <<Zero, Zero, Zero, "XYZ">>)
  /\ buf = [A |-> <<>>]
  /\ pre = [quat |-> quat, euler |-> euler, buf |-> buf]
  /\ \E track \in Tracks \cup {CloseTrack, ConstantTrack}, settings \in Settings :
       \E buffer \in ResultBuffers(track[3]) :
         interpolant =
           [NewCubicInterpolant(track[1], track[2], track[3], settings)
              EXCEPT !.resultBuffer = buffer]

NextStencil == CallIntervalChanged \/ CallInterpolate

SpecStencil == InitStencil /\ [][NextStencil]_vars

\* The interpolant as it was constructed
Fresh ==
  NewCubicInterpolant(interpolant.parameterPositions, interpolant.sampleValues,
                      interpolant.valueSize, interpolant.settings)

\* C10: what evaluate(t) returns, in a run of calls with non-decreasing t, is
\* what a newly constructed interpolant with the same positions, samples,
\* stride and settings returns for evaluate(t).
C10_SequentialIsFresh ==
  last.op = "evaluate" => ret = evaluate(Fresh, last.t).resultBuffer

\* C10's case: a call that found t in the interval the call before it had
\* left cached, and returned other numbers than that call.
C10_Witness ==
  /\ last.op = "evaluate" /\ ncalls > 1
  /\ IntervalHolds(pre.interpolant, last.t)
  /\ interpolant._cachedIndex = pre.interpolant._cachedIndex
  /\ ret # pre.interpolant.resultBuffer

\* The interpolant has two samples and the default ending at both ends
TwoSamples ==
  /\ Len(interpolant.parameterPositions) = 2
  /\ getSettings_(interpolant) = DefaultSettings_

\* The last call was evaluate(t) with t between the two positions, ends included
OnTheLine ==
  /\ last.op = "evaluate" /\ TwoSamples
  /\ Le(interpolant.parameterPositions[1], last.t)
  /\ Le(last.t, interpolant.parameterPositions[2])

\* (1 - p) * v0[c] + p * v1[c] with p = (t - t0) / (t1 - t0), for component i
\* of the two samples of the interpolant
LineAt(t, i) ==
  Bind(Div(Sub(t, interpolant.parameterPositions[1]),
           Sub(interpolant.parameterPositions[2], interpolant.parameterPositions[1])),
       LAMBDA p :
         Add(Mul(Sub(One, p), interpolant.sampleValues[i]),
             Mul(p, interpolant.sampleValues[interpolant.valueSize + i])))

\* The rounding error allowed to a result computed from the samples v0, v1
RoundingError(i) ==
  Mul(Frac(4, Scale),
      Add(One, Add(Abs(interpolant.sampleValues[i]),
                   Abs(interpolant.sampleValues[interpolant.valueSize + i]))))

\* C11 (as claimed): with two samples and the default endings, evaluate(t) for
\* t in [t0, t1] returns exactly (1 - p) * v0 + p * v1 in every component.
C11_TwoSamplesIsTheLine ==
  OnTheLine => \A i \in 1..interpolant.valueSize : ret[i] = LineAt(last.t, i)

\* C11 (amended): with two samples and the default endings, evaluate(t) for
\* t in [t0, t1] returns (1 - p) * v0 + p * v1 in every component up to the
\* rounding error of the arithmetic.
C11_TwoSamplesIsTheLineUpToRounding ==
  OnTheLine =>
    \A i \in 1..interpolant.valueSize :
      Le(Abs(Sub(ret[i], LineAt(last.t, i))), RoundingError(i))

\* C11's case: a call strictly inside the interval of a two-sample interpolant
\* of stride 2, which returned the point of the line, neither sample.
C11_Witness ==
  /\ OnTheLine /\ interpolant.valueSize = 2
  /\ Lt(interpolant.parameterPositions[1], last.t)
  /\ Lt(last.t, interpolant.parameterPositions[2])
  /\ ret = <<LineAt(last.t, 1), LineAt(last.t, 2)>>
  /\ ret # <<interpolant.sampleValues[1], interpolant.sampleValues[2]>>
  /\ ret # <<interpolant.sampleValues[3], interpolant.sampleValues[4]>>

\* The tolerance of the comparison of the round trip, in the resolution of
\* the arithmetic
RoundTripTolerance == Frac(40, Scale)

\* The quaternions q (qa) and q2 (qb) of the last round trip
TripQ == QValue(quat["qa"])
TripQ2 == QValue(quat["qb"])

\* The matrix element the Euler conversion of the last round trip tested is at
\* most 0.99 in magnitude: the conversion was well away from gimbal lock
AwayFromGimbalLock == Le(Abs(TestedElement(_matrix, last.order)), Frac(99, 100))

NotifiedOnce ==
  log = <<[obj |-> "q1", fn |-> LastRegistered("q1"), val |-> QValue(quat["q1"])]>>

\* C17: q1.multiply(q) leaves in q1 the product q1 x q and q1.premultiply(q)
\* the product q x q1 of the values held when the call started, also when q is
\* q1 itself; q is left as it was when it is another object, and the callback
\* of q1 is invoked once.
C17_MultiplyInPlace ==
  /\ (last.obj = "q1" /\ last.op = "multiply") =>
       /\ QValue(quat["q1"]) = QProduct(pre.quat["q1"], pre.quat[last.q])
       /\ last.q # "q1" => quat[last.q] = pre.quat[last.q]
       /\ NotifiedOnce /\ ret = "this"
  /\ (last.obj = "q1" /\ last.op = "premultiply") =>
       /\ QValue(quat["q1"]) = QProduct(pre.quat[last.q], pre.quat["q1"])
       /\ last.q # "q1" => quat[last.q] = pre.quat[last.q]
       /\ NotifiedOnce /\ ret = "this"

\* C17's case: q1.premultiply(qb) with a registered callback, where the
\* product qb x q1 is not the product q1 x qb, nor q1, nor qb.
C17_Witness ==
  /\ last.obj = "q1" /\ last.op = "premultiply" /\ last.q = "qb"
  /\ QBefore = Qr
  /\ QValue(quat["q1"]) = QProduct(pre.quat["qb"], pre.quat["q1"])
  /\ QValue(quat["q1"]) # QProduct(pre.quat["q1"], pre.quat["qb"])
  /\ QValue(quat["q1"]) \notin {QBefore, QArgument("qb")}
  /\ log = <<[obj |-> "q1", fn |-> "f", val |-> QValue(quat["q1"])]>>

\* The angle q1.angleTo(q) gave when the last call started
AngleBefore == AngleOf(QBefore, QArgument(last.q))

\* C18: q1.rotateTowards(q, step) interpolates with t = min(1, step /
\* angleTo(q)); whenever step >= angleTo(q) > 0 it leaves in q1 the components
\* of q; when angleTo(q) is 0 it leaves q1 as it was and invokes no callback.
C18_RotateTowardsNoOvershoot ==
  (last.obj = "q1" /\ last.op = "rotateTowards") =>
    /\ Eq(AngleBefore, Zero) => quat["q1"] = pre.quat["q1"] /\ log = <<>>
    /\ Lt(Zero, AngleBefore) =>
         QValue(quat["q1"]) =
           SlerpOf(QBefore, QArgument(last.q), Min(One, Div(last.step, AngleBefore)))
    /\ (Lt(Zero, AngleBefore) /\ Le(AngleBefore, last.step)) =>
         QValue(quat["q1"]) = QArgument(last.q)
    /\ ret = "this"

\* C18's case: a step larger than the angle to another quaternion, which
\* moved q1 onto that quaternion.
C18_Witness ==
  /\ last.obj = "q1" /\ last.op = "rotateTowards" /\ last.q = "qb"
  /\ Lt(Zero, AngleBefore) /\ Lt(AngleBefore, last.step)
  /\ QBefore = Qr /\ QArgument("qb") = Qx
  /\ QValue(quat["q1"]) = Qx

\* The array a reference returned by the interpolant refers to
Referred(reference) == interpolant[reference]

\* The array interpolate_ computes in the last call from the interpolant as it
\* was when the call started
Computed ==
  interpolate_(pre.interpolant, last.i1, Position(pre.interpolant, last.i1 - 1),
               last.t, Position(pre.interpolant, last.i1)).resultBuffer

\* C19: interpolate_ returns the resultBuffer of the interpolant in every
\* call, assigns its elements 0 .. stride - 1 and no other element, and
\* leaves sampleValues, parameterPositions and the cached weights and offsets
\* as they were; the array returned by one call holds the values of the next
\* call after that call.
C19_InterpolateWritesOwnBuffer ==
  last.op = "interpolate_" =>
    /\ ret = "resultBuffer"
    /\ [interpolant EXCEPT !.resultBuffer = pre.interpolant.resultBuffer] = pre.interpolant
    /\ DOMAIN interpolant.resultBuffer = DOMAIN pre.interpolant.resultBuffer
    /\ \A i \in DOMAIN interpolant.resultBuffer :
         IF i <= interpolant.valueSize
         THEN interpolant.resultBuffer[i] = Computed[i]
         ELSE interpolant.resultBuffer[i] = pre.interpolant.resultBuffer[i]
    /\ pre.last.op = "interpolate_" =>
         \A i \in 1..interpolant.valueSize : Referred(pre.ret)[i] = Computed[i]

\* C19's case: a second interpolate_ on a buffer longer than the stride, which
\* changed the elements the first call had left in the array it returned and
\* left the element past the stride as constructed.
C19_Witness ==
  /\ last.op = "interpolate_" /\ pre.last.op = "interpolate_"
  /\ interpolant.valueSize = 2 /\ Len(interpolant.resultBuffer) = 3
  /\ Referred(pre.ret)[1] # pre.interpolant.resultBuffer[1]
  /\ Referred(pre.ret)[2] # pre.interpolant.resultBuffer[2]
  /\ Referred(pre.ret)[3] = Whole(7)
  /\ interpolant._weightPrev # Zero

\* The angles of e1 are those it held when the last call started
AnglesKept ==
  /\ euler["e1"].x = pre.euler["e1"].x
  /\ euler["e1"].y = pre.euler["e1"].y
  /\ euler["e1"].z = pre.euler["e1"].z

\* C20 (as claimed): e1.setFromRotationMatrix(m, order) with an order that is
\* none of the six tags does not throw and leaves x, y and z as they were.
C20_UnknownOrderKeepsAngles ==
  ( /\ last.obj = "e1" /\ last.op = "setFromRotationMatrix"
    /\ last.order \notin RotationOrders \cup {"undefined"} ) =>
    err = "none" /\ AnglesKept

\* C20 (amended): e1.setFromRotationMatrix(m, order) with an order that is
\* not the empty string and none of the six tags does not throw and leaves x,
\* y and z as they were.
C20_UnknownTruthyOrderKeepsAngles ==
  ( /\ last.obj = "e1" /\ last.op = "setFromRotationMatrix"
    /\ last.order \notin RotationOrders \cup {"undefined", ""} ) =>
    err = "none" /\ AnglesKept

\* C20's case: the quarter turn about y handed over with the order 'ABC',
\* which is stored while the angles 1, 1/2, 1/4 stay.
C20_Witness ==
  /\ last.obj = "e1" /\ last.op = "setFromRotationMatrix"
  /\ last.order = BadOrder /\ last.m = QuarterTurnY
  /\ err = "none" /\ warn = 1
  /\ euler["e1"].order = BadOrder
  /\ <<euler["e1"].x, euler["e1"].y, euler["e1"].z>> = <<One, Half, Frac(1, 4)>>

\* C21: q1.setFromEuler(euler) with an Euler whose order is none of the six
\* tags does not throw and leaves x, y, z and w of q1 as they were.
C21_UnknownEulerOrderKeepsQuaternion ==
  ( /\ last.obj = "q1" /\ last.op = "setFromEuler"
    /\ last.euler \in DOMAIN pre.euler
    /\ pre.euler[last.euler].order \notin RotationOrders ) =>
    err = "none" /\ QValue(quat["q1"]) = QBefore /\ ret = "this"

\* C21's case: an Euler of order 'ABC' with angles 1, 1/2, 1/4 handed to a
\* quaternion that is not the identity; the order was warned about.
C21_Witness ==
  /\ last.obj = "q1" /\ last.op = "setFromEuler" /\ last.euler = "ea"
  /\ pre.euler["ea"].order = BadOrder
  /\ ~Eq(pre.euler["ea"].x, Zero)
  /\ QBefore = Qr /\ QValue(quat["q1"]) = Qr
  /\ err = "none" /\ warn = 1

\* The first, middle and last axis of an order, as names of the angles
Axes(order) ==
  CASE order = "XYZ" -> <<"x", "y", "z">>
    [] order = "YXZ" -> <<"y", "x", "z">>
    [] order = "ZXY" -> <<"z", "x", "y">>
    [] order = "ZYX" -> <<"z", "y", "x">>
    [] order = "YZX" -> <<"y", "z", "x">>
    [] order = "XZY" -> <<"x", "z", "y">>

\* Element mij of the column-major elements te
El(te, i, j) == te[(j - 1) * 4 + i]

\* The sign the element handed to asin is given for an order
AsinSign(order) == IF order \in {"XYZ", "ZXY", "YZX"} THEN 1 ELSE -1

\* What asin is applied to in the last call
AsinArgument ==
  Bind(clamp(TestedElement(last.m, last.order), Whole(-1), One), LAMBDA c :
    IF AsinSign(last.order) = 1 THEN c ELSE Neg(c))

\* The regular atan2 pairs of the angles of the first and the last axis
RegularAngles(te, order) ==
  CASE order = "XYZ" -> <<atan2(Neg(El(te, 2, 3)), El(te, 3, 3)),
                          atan2(Neg(El(te, 1, 2)), El(te, 1, 1))>>
    [] order = "YXZ" -> <<atan2(El(te, 1, 3), El(te, 3, 3)),
                          atan2(El(te, 2, 1), El(te, 2, 2))>>
    [] order = "ZXY" -> <<atan2(Neg(El(te, 1, 2)), El(te, 2, 2)),
                          atan2(Neg(El(te, 3, 1)), El(te, 3, 3))>>
    [] order = "ZYX" -> <<atan2(El(te, 2, 1), El(te, 1, 1)),
                          atan2(El(te, 3, 2), El(te, 3, 3))>>
    [] order = "YZX" -> <<atan2(Neg(El(te, 3, 1)), El(te, 1, 1)),
                          atan2(Neg(El(te, 2, 3)), El(te, 2, 2))>>
    [] order = "XZY" -> <<atan2(El(te, 3, 2), El(te, 2, 2)),
                          atan2(El(te, 1, 3), El(te, 1, 1))>>

\* The alternate atan2 of the angle of the first axis
AlternateAngle(te, order) ==
  CASE order = "XYZ" -> atan2(El(te, 3, 2), El(te, 2, 2))
    [] order = "YXZ" -> atan2(Neg(El(te, 3, 1)), El(te, 1, 1))
    [] order = "ZXY" -> atan2(El(te, 2, 1), El(te, 1, 1))
    [] order = "ZYX" -> atan2(Neg(El(te, 1, 2)), El(te, 2, 2))
    [] order = "YZX" -> atan2(El(te, 1, 3), El(te, 3, 3))
    [] order = "XZY" -> atan2(Neg(El(te, 2, 3)), El(te, 3, 3))

\* The last call was e1.setFromRotationMatrix with one of the six orders
Decomposed ==
  /\ last.obj = "e1" /\ last.op = "setFromRotationMatrix"
  /\ last.order \in RotationOrders

\* The angle of e1 about the first (1), middle (2) or last (3) axis of the order
AngleAbout(k) == euler["e1"][Axes(last.order)[k]]

\* The limit 0.9999999 of the claim
FallbackFrom == Frac(9999999, 10000000)

\* The angles of a decomposition that tested the element tested: the middle one is
\* asin(a); at or past the limit the last one is 0 and the first the
\* alternate atan2, below the limit both are the regular atan2 pairs
DecomposedFor(tested) ==
  /\ AngleAbout(2) = asin(AsinArgument)
  /\ Le(FallbackFrom, Abs(tested)) =>
       AngleAbout(3) = Zero /\ AngleAbout(1) = AlternateAngle(last.m, last.order)
  /\ Lt(Abs(tested), FallbackFrom) =>
       /\ AngleAbout(1) = RegularAngles(last.m, last.order)[1]
       /\ AngleAbout(3) = RegularAngles(last.m, last.order)[2]

\* The asin argument of the last call lies in [-1, 1]
AsinArgumentInRange == Le(Whole(-1), AsinArgument) /\ Le(AsinArgument, One)

\* C22 (as claimed): setFromRotationMatrix takes the middle angle from asin;
\* at or past 0.9999999 the last axis' angle is 0 and the first axis' angle the
\* alternate atan2, below it both come from the regular atan2 pairs; the asin
\* argument is within [-1, 1] and the call does not throw, for every matrix.
C22_GimbalFallback ==
  Decomposed =>
    /\ DecomposedFor(TestedElement(last.m, last.order))
    /\ AsinArgumentInRange
    /\ err = "none"

\* C22 (amended): the same, the asin argument being within [-1, 1] for every
\* matrix whose element handed to asin is not NaN.
C22_GimbalFallbackOfNumbers ==
  Decomposed =>
    /\ DecomposedFor(TestedElement(last.m, last.order))
    /\ ~IsNaN(TestedElement(last.m, last.order)) => AsinArgumentInRange
    /\ err = "none"

\* C22's case: order 'ZXY' and a matrix with m32 = 2, past the limit: x is
\* asin(1), y is 0 where the regular pair gives another angle, z is the
\* alternate atan2, which is not the regular one.
C22_Witness ==
  /\ Decomposed /\ last.order = "ZXY"
  /\ TestedElement(last.m, "ZXY") = Whole(2)
  /\ euler["e1"].x = asin(One)
  /\ euler["e1"].y = Zero
  /\ RegularAngles(last.m, "ZXY")[2] # Zero
  /\ euler["e1"].z = AlternateAngle(last.m, "ZXY")
  /\ euler["e1"].z # RegularAngles(last.m, "ZXY")[1]
  /\ err = "none"

\* e1 after e1.setFromRotationMatrix(M, order) called where the last call was,
\* M being the elements makeRotationFromQuaternion gives a new Matrix4 for q
ViaSeparateMatrix ==
  ESetFromRotationMatrix(
    [World EXCEPT !.quat = pre.quat, !.euler = pre.euler, !.log = <<>>], "e1",
    MakeRotationFromQuaternion(pre.quat[last.q].x, pre.quat[last.q].y,
                               pre.quat[last.q].z, pre.quat[last.q].w),
    last.order, last.update).euler["e1"]

ArrayBefore == pre.buf[last.array]

ArrayExpected ==
  [i \in 1..(IF Len(ArrayBefore) > last.offset + 4 THEN Len(ArrayBefore)
             ELSE last.offset + 4) |->
     IF i > last.offset /\ i <= last.offset + 4
     THEN EValue(pre.euler["e1"])[i - last.offset]
     ELSE IF i <= Len(ArrayBefore) THEN ArrayBefore[i] ELSE "undefined"]

OnInterval(i1) ==
  intervalChanged_(interpolant, i1, Position(interpolant, i1 - 1),
                   Position(interpolant, i1))

\* The derivative of element i of the curve at pp[k], approached from the
\* interval that starts there and from the interval that ends there
SlopeFromRight(k, i) ==
  CubicSlope(OnInterval(k + 1), k + 1,
             CubicBasisSlopeAtStart(OnInterval(k + 1)._weightPrev,
                                    OnInterval(k + 1)._weightNext), i)

SlopeFromLeft(k, i) ==
  CubicSlope(OnInterval(k), k,
             CubicBasisSlopeAtEnd(OnInterval(k)._weightPrev,
                                  OnInterval(k)._weightNext), i)

\* (v[k + 1] - v[k - 1]) / (t[k + 1] - t[k - 1]) for element i
NeighbourSlope(k, i) ==
  Div(Sub(interpolant.sampleValues[(k + 1) * interpolant.valueSize + i],
          interpolant.sampleValues[(k - 1) * interpolant.valueSize + i]),
      Sub(Position(interpolant, k + 1), Position(interpolant, k - 1)))

\* The interior sample positions pp[k]
Interior == 1..(Len(interpolant.parameterPositions) - 2)

\* The derivative of element i at the start and at the end of the interval
\* whose weights and offsets the interpolant holds since the last call
SlopeAtStart(i) ==
  CubicSlope(interpolant, last.i1,
             CubicBasisSlopeAtStart(interpolant._weightPrev, interpolant._weightNext), i)

SlopeAtEnd(i) ==
  CubicSlope(interpolant, last.i1,
             CubicBasisSlopeAtEnd(interpolant._weightPrev, interpolant._weightNext), i)

\* C25: after intervalChanged_ for an interval that starts or ends at an
\* interior sample position, the derivative of every element of the curve
\* there is the slope between the neighbouring samples, (v[k + 1] - v[k - 1]) /
\* (t[k + 1] - t[k - 1]), and is the same approached from the neighbouring
\* interval.
C25_DerivativeIsNeighbourSlope ==
  last.op = "intervalChanged_" =>
    \A i \in 1..interpolant.valueSize :
      /\ (last.i1 - 1) \in Interior =>
           /\ SlopeAtStart(i) = NeighbourSlope(last.i1 - 1, i)
           /\ SlopeAtStart(i) = SlopeFromLeft(last.i1 - 1, i)
      /\ last.i1 \in Interior =>
           /\ SlopeAtEnd(i) = NeighbourSlope(last.i1, i)
           /\ SlopeAtEnd(i) = SlopeFromRight(last.i1, i)

\* The last call was intervalChanged_ for the first, for the last interval
OnFirstInterval == last.op = "intervalChanged_" /\ last.i1 = 1

OnLastInterval ==
  last.op = "intervalChanged_" /\ last.i1 = Len(interpolant.parameterPositions) - 1

\* C26: with endingStart = ZeroSlopeEnding, intervalChanged_ for the first
\* interval takes row i1 as the previous row with the weight 1/2, and the
\* derivative of every element at t0 is 0; with endingEnd = ZeroSlopeEnding,
\* after intervalChanged_ for the last interval the derivative of every
\* element at t1 is 0.
C26_ZeroSlopeEndings ==
  /\ (OnFirstInterval /\ getSettings_(interpolant).endingStart = "ZeroSlopeEnding") =>
       /\ interpolant._offsetPrev = last.i1 * interpolant.valueSize
       /\ interpolant._weightPrev = Half
       /\ \A i \in 1..interpolant.valueSize : SlopeAtStart(i) = Zero
  /\ (OnLastInterval /\ getSettings_(interpolant).endingEnd = "ZeroSlopeEnding") =>
       \A i \in 1..interpolant.valueSize : SlopeAtEnd(i) = Zero

\* The axis the claim names for a vFrom opposite to vTo
PickedAxis(vFrom) ==
  IF Lt(Abs(vFrom.z), Abs(vFrom.x)) THEN <<Neg(vFrom.y), vFrom.x, Zero>>
  ELSE <<Zero, Neg(vFrom.z), vFrom.y>>

\* The components normalize() leaves for (x, y, z, 0)
NormalizedAxis(a) ==
  QValue(QNormalize(WithQuat(World, "q1", <<a[1], a[2], a[3], Zero>>), "q1").quat["q1"])

\* The last call was q1.setFromUnitVectors with vFrom.dot(vTo) + 1 below
\* Number.EPSILON
SetFromOpposite ==
  /\ last.obj = "q1" /\ last.op = "setFromUnitVectors"
  /\ LtEpsilon(Add(V3Dot(last.vFrom, last.vTo), One))

\* C27: q1.setFromUnitVectors for opposite vectors normalizes (axis, 0), the
\* axis being (-y, x, 0) of vFrom when |x| > |z| and (0, -z, y) otherwise; for
\* a vFrom that is not zero the axis is not zero and its dot product with
\* vFrom is 0; every call invokes the callback of q1 once.
C27_OppositeVectorsAxis ==
  /\ SetFromOpposite =>
       /\ QValue(quat["q1"]) = NormalizedAxis(PickedAxis(last.vFrom))
       /\ last.vFrom # V3(Zero, Zero, Zero) =>
            /\ PickedAxis(last.vFrom) # <<Zero, Zero, Zero>>
            /\ Add(Add(Mul(PickedAxis(last.vFrom)[1], last.vFrom.x),
                       Mul(PickedAxis(last.vFrom)[2], last.vFrom.y)),
                   Mul(PickedAxis(last.vFrom)[3], last.vFrom.z)) = Zero
  /\ (last.obj = "q1" /\ last.op = "setFromUnitVectors") => NotifiedOnce /\ ret = "this"

\* C27's case: vFrom = (0, 0, 1) and vTo = (0, 0, -1), where x is not larger
\* than z: the axis is (0, -1, 0), and the registered callback ran once.
C27_Witness ==
  /\ SetFromOpposite
  /\ last.vFrom = V3(Zero, Zero, One)
  /\ QValue(quat["q1"]) = <<Zero, Whole(-1), Zero, Zero>>
  /\ log = <<[obj |-> "q1", fn |-> "f", val |-> <<Zero, Whole(-1), Zero, Zero>>]>>

\* <<x, y, z, w>> as one branch of setFromRotationMatrix assigns them from the
\* elements 0, 1, 2, 4, 5, 6, 8, 9, 10 of the matrix
BranchValue(te, branch) ==
  LET m11 == te[1]   m12 == te[5]   m13 == te[9]
      m21 == te[2]   m22 == te[6]   m23 == te[10]
      m31 == te[3]   m32 == te[7]   m33 == te[11]
      r == CASE branch = "trace" -> Div(Half, sqrt(Add(Add(Add(m11, m22), m33), One)))
             [] branch = "m11" -> Mul(Whole(2), sqrt(Sub(Sub(Add(One, m11), m22), m33)))
             [] branch = "m22" -> Mul(Whole(2), sqrt(Sub(Sub(Add(One, m22), m11), m33)))
             [] branch = "m33" -> Mul(Whole(2), sqrt(Sub(Sub(Add(One, m33), m11), m22)))
  IN  CASE branch = "trace" ->
             <<Mul(Sub(m32, m23), r), Mul(Sub(m13, m31), r), Mul(Sub(m21, m12), r),
               Div(Frac(1, 4), r)>>
        [] branch = "m11" ->
             <<Mul(Frac(1, 4), r), Div(Add(m12, m21), r), Div(Add(m13, m31), r),
               Div(Sub(m32, m23), r)>>
        [] branch = "m22" ->
             <<Div(Add(m12, m21), r), Mul(Frac(1, 4), r), Div(Add(m23, m32), r),
               Div(Sub(m13, m31), r)>>
        [] branch = "m33" ->
             <<Div(Add(m13, m31), r), Div(Add(m23, m32), r), Mul(Frac(1, 4), r),
               Div(Sub(m21, m12), r)>>

\* The branch the claim names for a diagonal
ClaimedBranch(m11, m22, m33) ==
  IF Lt(Zero, Add(Add(m11, m22), m33)) THEN "trace"
  ELSE IF Lt(m22, m11) /\ Lt(m33, m11) THEN "m11"
  ELSE IF Lt(m33, m22) THEN "m22"
  ELSE "m33"

\* The diagonal element of a branch is not below the other two
GreatestOfDiagonal(m11, m22, m33, branch) ==
  CASE branch = "trace" -> TRUE
    [] branch = "m11" -> Le(m22, m11) /\ Le(m33, m11)
    [] branch = "m22" -> Le(m11, m22) /\ Le(m33, m22)
    [] branch = "m33" -> Le(m11, m33) /\ Le(m22, m33)

\* The last call was q1.setFromRotationMatrix
SetFromMatrix == last.obj = "q1" /\ last.op = "setFromRotationMatrix"

\* C28: q1.setFromRotationMatrix(m) assigns what the trace branch assigns if
\* and only if m11 + m22 + m33 > 0, and otherwise what the m11 branch assigns
\* if m11 is above both others, else the m22 branch if m22 > m33, else the
\* m33 branch; the element of that branch is not below the other two; the
\* result is a function of the nine elements of the upper 3x3, and nothing
\* but q1 changes.
C28_RotationMatrixBranches ==
  SetFromMatrix =>
    LET te == last.m
        branch == ClaimedBranch(te[1], te[6], te[11])
    IN  /\ QValue(quat["q1"]) = BranchValue(te, branch)
        /\ GreatestOfDiagonal(te[1], te[6], te[11], branch)
        /\ te \in Diagonals =>
             \A other \in {"trace", "m11", "m22", "m33"} \ {branch} :
               QValue(quat["q1"]) # BranchValue(te, other)
        /\ \A o \in DOMAIN quat \ {"q1"} : quat[o] = pre.quat[o]
        /\ euler = pre.euler /\ buf = pre.buf
        /\ NotifiedOnce /\ ret = "this"

\* C28's case: a diagonal of (0, 0, -1), where m11 ties with m22 above m33 and
\* the trace is not positive, in a matrix whose fourth row and column are not
\* those of a rotation: the m22 branch was taken.
C28_Witness ==
  /\ SetFromMatrix
  /\ last.m[1] = Zero /\ last.m[6] = Zero /\ last.m[11] = Whole(-1)
  /\ last.m[16] = Whole(6)
  /\ QValue(quat["q1"]) = BranchValue(last.m, "m22")
  /\ QValue(quat["q1"]) # BranchValue(last.m, "m11")

\* The neighbours <<iPrev, tPrev>> and <<iNext, tNext>> of the last
\* intervalChanged_
LastPrev ==
  StencilPrev(pre.interpolant, last.i1, Position(pre.interpolant, last.i1 - 1),
              Position(pre.interpolant, last.i1))

LastNext ==
  StencilNext(pre.interpolant, last.i1, Position(pre.interpolant, last.i1 - 1),
              Position(pre.interpolant, last.i1))

\* An offset is that of a row of the samples
RowOffset(c, offset) ==
  \E row \in 0..(Len(c.parameterPositions) - 1) : offset = row * c.valueSize

\* The offsets cached are those of rows
OffsetsOfRows ==
  /\ RowOffset(interpolant, interpolant._offsetPrev)
  /\ RowOffset(interpolant, interpolant._offsetNext)

\* t0 - tPrev and tNext - t1 are not 0, and the weights are finite
DenominatorsNotZero ==
  /\ Sub(Position(pre.interpolant, last.i1 - 1), LastPrev[2]) # Zero
  /\ Sub(LastNext[2], Position(pre.interpolant, last.i1)) # Zero
  /\ IsFinite(interpolant._weightPrev) /\ IsFinite(interpolant._weightNext)

\* The positions are multiples of 1 / Scale, whose sums and differences are
\* computed without rounding
ExactPositions(c) ==
  \A i \in 1..Len(c.parameterPositions) : Scale % c.parameterPositions[i][2] = 0

LastP ==
  Div(Sub(last.t, Position(interpolant, last.i1 - 1)),
      Sub(Position(interpolant, last.i1), Position(interpolant, last.i1 - 1)))

LastBasis ==
  CubicBasis(interpolant._weightPrev, interpolant._weightNext,
             LastP, Mul(LastP, LastP), Mul(Mul(LastP, LastP), LastP))

\* Element i of a row of the samples
Sample(row, i) == interpolant.sampleValues[row * interpolant.valueSize + i]

\* Element i of the four rows of the stencil is one number
ConstantStencil(i) ==
  /\ Sample(last.i1 - 1, i) = Sample(last.i1, i)
  /\ interpolant.sampleValues[interpolant._offsetPrev + i] = Sample(last.i1, i)
  /\ interpolant.sampleValues[interpolant._offsetNext + i] = Sample(last.i1, i)

\* The result of the last interpolate_ is row i1 - 1 at t0
StartReproduced ==
  last.t = Position(interpolant, last.i1 - 1) =>
    \A i \in 1..interpolant.valueSize :
      interpolant.resultBuffer[i] = Sample(last.i1 - 1, i)

\* The result is row i1 at t1, the basis weights sum to 1, and a stencil of
\* one number gives that number
EndReproduced ==
  /\ last.t = Position(interpolant, last.i1) =>
       \A i \in 1..interpolant.valueSize :
         interpolant.resultBuffer[i] = Sample(last.i1, i)
  /\ Add(Add(Add(LastBasis[1], LastBasis[2]), LastBasis[3]), LastBasis[4]) = One
  /\ \A i \in 1..interpolant.valueSize :
       ConstantStencil(i) => interpolant.resultBuffer[i] = Sample(last.i1, i)

FiniteWeights == IsFinite(interpolant._weightPrev) /\ IsFinite(interpolant._weightNext)

\* The basis weights and their products with the samples are computed
\* without rounding: every denominator that arises divides a number that is
\* no more than Scale
ExactBasis ==
  /\ FiniteWeights /\ IsFinite(LastP)
  /\ 4 * interpolant._weightPrev[2] * interpolant._weightNext[2]
        * LastP[2] * LastP[2] * LastP[2] <= Scale
  /\ \A k \in DOMAIN interpolant.sampleValues : interpolant.sampleValues[k][2] \in {1, 2}

====
